---- MODULE Spec2Model ----
(***************************************************************************)
(* Model of the command-segmented data collectors of collect_data/:        *)
(*   CommandBasedDataCollector.collect_data_interactive  (interactive)     *)
(*   AutoFullTownCollector._auto_collect_data            (automated)       *)
(*                                                                         *)
(* One step of the model is one iteration of a tick loop of the code (or   *)
(* one operator answer, or one call of the writer), from the world.tick()  *)
(* at its top to the evaluation of the loop conditions that follow it.     *)
(* A KeyboardInterrupt is delivered while the main thread is blocked in    *)
(* the simulator (world.tick), on the terminal (the prompt) or in the      *)
(* file write; an error of the simulator or of the disk is an outcome of   *)
(* the tick or of the write.                                               *)
(*                                                                         *)
(* The literals 200 (samples per segment) and 500 (ticks of a skip) of the *)
(* source are the definitions SegmentLimit and SkipLimit, scaled down so   *)
(* that every path through them is explored; every formula is stated in    *)
(* terms of these names.                                                   *)
(***************************************************************************)
EXTENDS Integers, Sequences, FiniteSets, TLC

\* ------------------------------------------------------------ bounds
\* the literal 200 of _save_segment and of the collect loops, scaled
SegmentLimit == 2
\* the literal 500 of the skip loop, scaled
SkipLimit == 2
\* the max_frames argument (frames_per_route in the automated collector)
MaxFrames == 3
\* cap on the number of world.tick() calls explored
MaxTicks == 4
\* latest second of the wall clock read by time.strftime
MaxClock == 1
\* cap on the invalid answers typed at one prompt
MaxReprompts == 1

\* ------------------------------------------------------------ program constants
\* current_image.mean() < 5
MinBrightness == 5
\* speed_kmh > 150
MaxSpeed == 150
\* np.zeros(25, dtype=np.float32)
TargetsLen == 25

\* ------------------------------------------------------------ inputs
\* RoadOption of agents.navigation.local_planner
RoadOptions ==
    {"VOID", "LEFT", "RIGHT", "STRAIGHT", "LANEFOLLOW",
     "CHANGELANELEFT", "CHANGELANERIGHT"}

\* the road options the planner reports during a run of the model
PlannerOptions == {"LANEFOLLOW", "LEFT", "VOID"}

\* mean brightness of a camera frame, around the threshold
Brightness == {MinBrightness - 1, MinBrightness}

\* vehicle speed in km/h, around the threshold
Speeds == {MaxSpeed, MaxSpeed + 1}

\* control = agent.run_step(), read back by vehicle.get_control(): steer in
\* [-1, 1], throttle and brake in [0, 1]; the controls explored are one per
\* target road option of the planner (turning, stopping at the goal, following)
RunStepControl(opt) ==
    CASE opt = "LEFT" -> [steer |-> -1, throttle |-> 1, brake |-> 0]
      [] opt = "VOID" -> [steer |-> 0, throttle |-> 0, brake |-> 1]
      [] OTHER -> [steer |-> 0, throttle |-> 1, brake |-> 0]

VARIABLES
    program,               \* which script runs: "interactive" or "auto"
    pc,                    \* control state of the collector
    agent,                 \* AGENTS_AVAILABLE and self.agent is not None
    ticks,                 \* number of world.tick() calls
    road_option,           \* local_planner.target_road_option
    route_done,            \* agent.done()
    image_buffer,          \* self.image_buffer, deque(maxlen=1)
    vehicle_speed,         \* 3.6 * |vehicle.get_velocity()|, km/h
    vehicle_control,       \* vehicle.get_control()
    wall_clock,            \* the second last read by time.strftime
    reprompts,             \* invalid answers typed at the prompt now shown
    current_segment_data,  \* {'rgb': [...], 'targets': [...]}
    segment_count,
    collected_frames,
    skip_frames,
    current_command,       \* self.current_command (auto: local current_command)
    save_command,
    total_saved_segments,
    total_saved_frames,
    h5_files,              \* every chunk file written, in order of writing
    save_offered,          \* the save-or-discard prompt of the interrupt handler was shown
    interrupted_at,        \* control state in which KeyboardInterrupt was caught, or "none"
    error,                 \* exception that left the collector, "none" if none
    choice,                \* _ask_user_save_segment: the line read by input()
    user_choice,           \* _ask_user_save_segment: the value returned
    data_path,             \* DataVerifier: the files of the data directory
    statistics,            \* DataVerifier.verify_all: what the last run computed
    previous_statistics,   \* DataVerifier.verify_all: what the run before it computed
    route_idx,             \* AutoFullTownCollector.run: index of the route pair
    route,                 \* AutoFullTownCollector.run: the route pair being handled
    success,               \* AutoFullTownCollector.run: result of collect_route_data
    total_routes_completed,
    failed_routes,
    total_routes_attempted,
    start_time,
    save_path_exists,
    final_statistics,
    npc_cleaned,
    synchronous_mode,
    spawn_points,
    route_generation_strategy,
    route_pairs,
    world,
    vehicle,
    camera,
    exit_path,
    cleanup_calls,
    cleanup_returned,
    planner_route,
    current_waypoint_index,
    adapter_command

vars ==
    <<program, pc, agent, ticks, road_option, route_done, image_buffer,
      vehicle_speed, vehicle_control, wall_clock, reprompts,
      current_segment_data, segment_count, collected_frames, skip_frames,
      current_command, save_command, total_saved_segments, total_saved_frames,
      h5_files, save_offered, interrupted_at, error,
      choice, user_choice, data_path, statistics, previous_statistics,
      route_idx, route, success, total_routes_completed, failed_routes,
      total_routes_attempted, start_time, save_path_exists, final_statistics,
      npc_cleaned, synchronous_mode,
      spawn_points, route_generation_strategy, route_pairs,
      world, vehicle, camera, exit_path, cleanup_calls, cleanup_returned,
      planner_route, current_waypoint_index, adapter_command>>

\* the state of _ask_user_save_segment, of DataVerifier and of
\* AutoFullTownCollector.run, which the tick loops do not touch
ask_vars == <<choice, user_choice>>

verify_vars == <<data_path, statistics, previous_statistics>>

run_vars ==
    <<route_idx, route, success, total_routes_completed, failed_routes,
      total_routes_attempted, start_time, save_path_exists, final_statistics,
      npc_cleaned, synchronous_mode>>

\* the state of generate_route_pairs, of main() of the interactive program and
\* of NavigationPlannerAdapter
generate_vars == <<spawn_points, route_generation_strategy, route_pairs>>

main_vars == <<world, vehicle, camera, exit_path, cleanup_calls, cleanup_returned>>

adapter_vars == <<planner_route, current_waypoint_index, adapter_command>>

max_frames == MaxFrames

Min(a, b) == IF a < b THEN a ELSE b

\* ------------------------------------------------------------ command mapping
command_names == (2 :> "Follow") @@ (3 :> "Left") @@ (4 :> "Right") @@ (5 :> "Straight")

road_option_to_command ==
    [o \in RoadOptions |->
        CASE o = "LANEFOLLOW" -> 2
          [] o = "LEFT" -> 3
          [] o = "RIGHT" -> 4
          [] o = "STRAIGHT" -> 5
          [] o = "CHANGELANELEFT" -> 2
          [] o = "CHANGELANERIGHT" -> 2
          [] o = "VOID" -> 0]

\* the command codes the mapping can produce: {0, 2, 3, 4, 5}
Commands == {road_option_to_command[o] : o \in RoadOptions}

\* command_names.get(command, 'Unknown')
CommandName(command) ==
    IF command \in DOMAIN command_names THEN command_names[command] ELSE "Unknown"

\* what a read of the planner gives besides a road option of the mapping: no
\* road option, a road option the mapping lacks, no local planner, an exception
PlannerReadings == RoadOptions \cup {"None", "UNMAPPED", "NO_PLANNER", "RAISES"}

\* mutant: the fallback is 0 (goal reached) instead of 2 (follow)
GetNavigationCommand_VoidDefault(has_agent, opt) ==
    IF ~has_agent THEN 0
    ELSE IF opt \in DOMAIN road_option_to_command THEN road_option_to_command[opt]
    ELSE 0

\* _get_navigation_command for planner reading opt
GetNavigationCommand(has_agent, opt) ==
    IF ~has_agent THEN 2
    ELSE IF opt = "RAISES" THEN 2
    ELSE IF opt = "NO_PLANNER" THEN 2
    ELSE IF opt = "None" THEN road_option_to_command["LANEFOLLOW"]
    ELSE IF opt \in DOMAIN road_option_to_command THEN road_option_to_command[opt]
    ELSE 2

\* mutant: the route check never reports completion
IsRouteCompleted_NeverDone(has_agent, done) == FALSE

\* _is_route_completed
IsRouteCompleted(has_agent, done) == has_agent /\ done

\* ------------------------------------------------------------ samples
\* mutant: the brightness threshold is inclusive
QualityRejected_Inclusive(mean, speed) == mean <= MinBrightness \/ speed > MaxSpeed

\* the data quality check of both collect loops
QualityRejected(mean, speed) == mean < MinBrightness \/ speed > MaxSpeed

\* the image appended to 'rgb' on tick t
RgbOf(t, image) == [tick |-> t, img |-> image.id, mean |-> image.mean]

\* mutant: the speed is stored one index too far
TargetsOf_SpeedAt11(control, speed, cmd) ==
    [i \in 0..(TargetsLen - 1) |->
        CASE i = 0 -> control.steer
          [] i = 1 -> control.throttle
          [] i = 2 -> control.brake
          [] i = 11 -> speed
          [] i = 24 -> cmd
          [] OTHER -> 0]

\* the label vector appended to 'targets': np.zeros(25) with the control at
\* indices 0..2, the speed at index 10 and the command at index 24
TargetsOf(control, speed, cmd) ==
    [i \in 0..(TargetsLen - 1) |->
        CASE i = 0 -> control.steer
          [] i = 1 -> control.throttle
          [] i = 2 -> control.brake
          [] i = 10 -> speed
          [] i = 24 -> cmd
          [] OTHER -> 0]

EmptySegment == [rgb |-> <<>>, targets |-> <<>>]

AppendSample(data, rgb, targets) ==
    [rgb |-> Append(data.rgb, rgb), targets |-> Append(data.targets, targets)]

\* ------------------------------------------------------------ writer
\* mutant: the chunk count is rounded up once too often
NumChunks_Extra(total) == total \div SegmentLimit + 1

\* mutant: the chunk count is rounded down
NumChunks_Floor(total) == total \div SegmentLimit

\* num_chunks = (total_samples + 199) // 200
NumChunks(total) == (total + (SegmentLimit - 1)) \div SegmentLimit

\* f"carla_cmd{command}_{command_name}_{timestamp}_part{chunk_idx+1:03d}.h5"
FileName(command, timestamp, i) ==
    <<"carla_cmd", command, CommandName(command), timestamp, "part", i>>

\* f"carla_cmd{command}_{command_name}_{timestamp}.h5"
FileNameAuto(command, timestamp) ==
    <<"carla_cmd", command, CommandName(command), timestamp>>

\* mutant: end_idx is one short
ChunkOf_ShortEnd(data, command, timestamp, i) ==
    LET total == Len(data.rgb)
        first == (i - 1) * SegmentLimit + 1
        last  == Min(i * SegmentLimit, total) - 1
    IN  [filename |-> FileName(command, timestamp, i),
         command |-> command,
         name    |-> CommandName(command),
         part    |-> i,
         rgb     |-> SubSeq(data.rgb, first, last),
         targets |-> SubSeq(data.targets, first, last)]

\* one chunk file of _save_segment: samples start_idx..end_idx-1 of the arrays
ChunkOf(data, command, timestamp, i) ==
    LET total == Len(data.rgb)
        first == (i - 1) * SegmentLimit + 1
        last  == Min(i * SegmentLimit, total)
    IN  [filename |-> FileName(command, timestamp, i),
         command |-> command,
         name    |-> CommandName(command),
         part    |-> i,
         rgb     |-> SubSeq(data.rgb, first, last),
         targets |-> SubSeq(data.targets, first, Min(last, Len(data.targets)))]

\* the files _save_segment writes for a buffer: none when the buffer is empty
SaveSegment(data, command, timestamp) ==
    IF Len(data.rgb) = 0 THEN <<>>
    ELSE [i \in 1..NumChunks(Len(data.rgb)) |-> ChunkOf(data, command, timestamp, i)]

\* mutant: the last sample of the buffer is not written
SaveSegmentAuto_DropLast(data, command, timestamp) ==
    IF Len(data.rgb) <= 1 THEN <<>>
    ELSE <<[filename |-> FileNameAuto(command, timestamp),
            command |-> command,
            name    |-> CommandName(command),
            part    |-> 0,
            rgb     |-> SubSeq(data.rgb, 1, Len(data.rgb) - 1),
            targets |-> SubSeq(data.targets, 1, Len(data.targets) - 1)]>>

\* the file _save_segment_auto writes: the whole buffer in one file
SaveSegmentAuto(data, command, timestamp) ==
    IF Len(data.rgb) = 0 THEN <<>>
    ELSE <<[filename |-> FileNameAuto(command, timestamp),
            command |-> command,
            name    |-> CommandName(command),
            part    |-> 0,
            rgb     |-> data.rgb,
            targets |-> data.targets]>>

RECURSIVE SumLen(_)
SumLen(chunks) ==
    IF chunks = <<>> THEN 0 ELSE Len(Head(chunks).rgb) + SumLen(Tail(chunks))

\* ------------------------------------------------------------ the world
\* agent.run_step() and world.tick(): the planner moves on, the route may
\* complete, the camera callback may deliver the frame of this tick
OptionAfterTick(opt) == IF agent THEN opt ELSE road_option

DoneAfterTick(done) == agent /\ (route_done \/ done)

ImageAfterTick(delivered, mean) ==
    IF delivered THEN <<[id |-> ticks + 1, mean |-> mean]>> ELSE image_buffer

\* mutant: the simulation is advanced twice in one iteration
WorldTick_Twice(opt, done, delivered, mean, speed) ==
    /\ ticks' = ticks + 2
    /\ vehicle_speed' = speed
    /\ road_option' = OptionAfterTick(opt)
    /\ vehicle_control' = RunStepControl(road_option')
    /\ route_done' = DoneAfterTick(done)
    /\ image_buffer' = ImageAfterTick(delivered, mean)

WorldTick(opt, done, delivered, mean, speed) ==
    /\ ticks' = ticks + 1
    /\ vehicle_speed' = speed
    /\ road_option' = OptionAfterTick(opt)
    /\ vehicle_control' = RunStepControl(road_option')
    /\ route_done' = DoneAfterTick(done)
    /\ image_buffer' = ImageAfterTick(delivered, mean)

\* ------------------------------------------------------------ loop conditions
\* mutant: one frame more than max_frames
MainLoopGuard_Inclusive(cf) == cf <= max_frames

\* mutant: one skipped tick more than the limit
SkipLoopGuard_Inclusive(sf) == sf <= SkipLimit

\* mutant: one sample more than the segment limit
CollectLoopGuard_Inclusive(sc, cf) == sc <= SegmentLimit /\ cf < max_frames

\* while collected_frames < max_frames
MainLoopGuard(cf) == cf < max_frames

\* while skip_frames < 500
SkipLoopGuard(sf) == sf < SkipLimit

\* while self.segment_count < 200 and collected_frames < max_frames
CollectLoopGuard(sc, cf) == sc < SegmentLimit /\ cf < max_frames

\* top of the main loop: the guard, then self.current_command is read again
MainLoopHead(cf, opt) ==
    IF MainLoopGuard(cf)
    THEN /\ pc' = "AWAITING_DECISION"
         /\ current_command' = GetNavigationCommand(agent, opt)
    ELSE /\ pc' = "STOPPED"
         /\ current_command' = current_command

\* ------------------------------------------------------------ initial state
\* no prompt is shown
AskIdle == choice = <<>> /\ user_choice = "pending"

\* no verification has run
VerifyIdle ==
    data_path = <<>> /\ statistics = [returned |-> FALSE]
                     /\ previous_statistics = [returned |-> FALSE]

\* run() handles no route
RunIdle ==
    /\ route_idx = 0
    /\ route = "none"
    /\ success = "none"
    /\ total_routes_completed = 0
    /\ failed_routes = <<>>
    /\ total_routes_attempted = 0
    /\ start_time = "unbound"
    /\ save_path_exists = FALSE
    /\ final_statistics = "none"
    /\ npc_cleaned = FALSE
    /\ synchronous_mode = FALSE

\* no route pairs are generated
GenerateIdle ==
    /\ spawn_points = <<>>
    /\ route_generation_strategy = "smart"
    /\ route_pairs = <<>>

\* main() of the interactive program does not run
MainIdle ==
    /\ world = "None"
    /\ vehicle = "None"
    /\ camera = "None"
    /\ exit_path = "none"
    /\ cleanup_calls = 0
    /\ cleanup_returned = FALSE

\* no adapter is constructed
AdapterIdle ==
    /\ planner_route = <<>>
    /\ current_waypoint_index = 0
    /\ adapter_command = 2

\* the routines outside the tick loops are idle
OthersIdle == GenerateIdle /\ MainIdle /\ AdapterIdle

\* the state at the top of the try block: the first frame has arrived, the
\* segment is empty, the first command has been read
Init ==
    /\ program \in {"interactive", "auto"}
    /\ agent \in BOOLEAN
    /\ ticks = 0
    /\ road_option \in (IF agent THEN PlannerOptions ELSE {"LANEFOLLOW"})
    /\ route_done = FALSE
    /\ \E mean \in Brightness : image_buffer = <<[id |-> 0, mean |-> mean]>>
    /\ vehicle_speed \in Speeds
    /\ vehicle_control = RunStepControl(road_option)
    /\ wall_clock = 0
    /\ reprompts = 0
    /\ current_segment_data = EmptySegment
    /\ segment_count = 0
    /\ collected_frames = 0
    /\ skip_frames = 0
    /\ current_command = GetNavigationCommand(agent, road_option)
    /\ save_command = -1
    /\ total_saved_segments = 0
    /\ total_saved_frames = 0
    /\ h5_files = <<>>
    /\ save_offered = FALSE
    /\ interrupted_at = "none"
    /\ error = "none"
    /\ pc = IF program = "interactive" THEN "AWAITING_DECISION" ELSE "AUTO_COLLECTING"
    /\ AskIdle
    /\ VerifyIdle
    /\ RunIdle
    /\ OthersIdle

\* ------------------------------------------------------------ the operator's decision
\* _ask_user_save_segment returns True; lines 536-540
Approve ==
    /\ pc = "AWAITING_DECISION"
    /\ save_command' = current_command
    /\ IF current_command \in DOMAIN command_names
       THEN /\ current_segment_data' = EmptySegment
            /\ segment_count' = 0
            /\ pc' = "COLLECTING"
            /\ error' = error
       ELSE /\ pc' = "FAILED"
            /\ error' = "KeyError"
            /\ UNCHANGED <<current_segment_data, segment_count>>
    /\ UNCHANGED <<program, agent, ticks, road_option, route_done, image_buffer, vehicle_speed,
                   vehicle_control, collected_frames, skip_frames, current_command,
                   total_saved_segments, total_saved_frames, h5_files, save_offered>>
    /\ interrupted_at' = interrupted_at
    /\ reprompts' = 0
    /\ wall_clock' = wall_clock
    /\ UNCHANGED <<ask_vars, verify_vars, run_vars, generate_vars, main_vars, adapter_vars>>

\* _ask_user_save_segment returns False; lines 490-496
Reject ==
    /\ pc = "AWAITING_DECISION"
    /\ IF current_command \in DOMAIN command_names
       THEN /\ skip_frames' = 0
            /\ pc' = "SKIPPING"
            /\ error' = error
       ELSE /\ pc' = "FAILED"
            /\ error' = "KeyError"
            /\ skip_frames' = skip_frames
    /\ UNCHANGED <<program, agent, ticks, road_option, route_done, image_buffer, vehicle_speed,
                   vehicle_control, current_segment_data, segment_count, collected_frames,
                   current_command, save_command, total_saved_segments,
                   total_saved_frames, h5_files, save_offered>>
    /\ interrupted_at' = interrupted_at
    /\ reprompts' = 0
    /\ wall_clock' = wall_clock
    /\ UNCHANGED <<ask_vars, verify_vars, run_vars, generate_vars, main_vars, adapter_vars>>

\* _ask_user_save_segment returns None: stop/q/quit, or an interrupt inside input()
Stop ==
    /\ pc = "AWAITING_DECISION"
    /\ pc' = "STOPPED"
    /\ UNCHANGED <<program, agent, ticks, road_option, route_done, image_buffer, vehicle_speed,
                   vehicle_control,
                   current_segment_data, segment_count, collected_frames, skip_frames,
                   current_command, save_command, total_saved_segments,
                   total_saved_frames, h5_files, save_offered, error>>
    /\ interrupted_at' = interrupted_at
    /\ reprompts' = 0
    /\ wall_clock' = wall_clock
    /\ UNCHANGED <<ask_vars, verify_vars, run_vars, generate_vars, main_vars, adapter_vars>>

\* any other input: the prompt is shown again
InvalidInput ==
    /\ pc = "AWAITING_DECISION"
    /\ reprompts < MaxReprompts
    /\ reprompts' = reprompts + 1
    /\ UNCHANGED <<program, pc, agent, ticks, road_option, route_done, image_buffer,
                   vehicle_speed, vehicle_control, wall_clock,
                   current_segment_data, segment_count, collected_frames, skip_frames,
                   current_command, save_command, total_saved_segments,
                   total_saved_frames, h5_files, save_offered, interrupted_at, error>>
    /\ UNCHANGED <<ask_vars, verify_vars, run_vars, generate_vars, main_vars, adapter_vars>>

\* ------------------------------------------------------------ SKIPPING
\* one iteration of the skip loop, lines 497-531, and what follows its exit
SkipTick ==
    /\ pc = "SKIPPING"
    /\ ticks < MaxTicks
    /\ \E opt \in PlannerOptions, done \in BOOLEAN, delivered \in BOOLEAN,
          mean \in Brightness, speed \in Speeds :
         /\ WorldTick(opt, done, delivered, mean, speed)
         /\ IF IsRouteCompleted(agent, route_done')
            THEN \* return
                 /\ pc' = "STOPPED"
                 /\ UNCHANGED <<skip_frames, collected_frames, current_command>>
            ELSE IF GetNavigationCommand(agent, road_option') # current_command
            THEN \* break, continue
                 /\ MainLoopHead(collected_frames, road_option')
                 /\ UNCHANGED <<skip_frames, collected_frames>>
            ELSE /\ skip_frames' = skip_frames + 1
                 /\ collected_frames' = collected_frames + 1
                 /\ IF SkipLoopGuard(skip_frames')
                    THEN /\ pc' = "SKIPPING"
                         /\ current_command' = current_command
                    ELSE MainLoopHead(collected_frames', road_option')
    /\ UNCHANGED <<program, agent, wall_clock, reprompts,
                   current_segment_data, segment_count, save_command,
                   total_saved_segments, total_saved_frames, h5_files, save_offered,
                   error>>
    /\ interrupted_at' = interrupted_at
    /\ UNCHANGED <<ask_vars, verify_vars, run_vars, generate_vars, main_vars, adapter_vars>>

\* ------------------------------------------------------------ COLLECTING
\* one iteration of the collect loop, lines 543-599
CollectTick ==
    /\ pc = "COLLECTING"
    /\ ticks < MaxTicks
    /\ \E opt \in PlannerOptions, done \in BOOLEAN, delivered \in BOOLEAN,
          mean \in Brightness, speed \in Speeds :
         /\ WorldTick(opt, done, delivered, mean, speed)
         /\ IF IsRouteCompleted(agent, route_done')
            THEN \* break
                 /\ pc' = "SAVING"
                 /\ UNCHANGED <<current_segment_data, segment_count, collected_frames>>
            ELSE IF Len(image_buffer') = 0
                    \/ QualityRejected(image_buffer'[1].mean, vehicle_speed')
            THEN \* continue
                 /\ pc' = "COLLECTING"
                 /\ UNCHANGED <<current_segment_data, segment_count, collected_frames>>
            ELSE /\ current_segment_data' =
                        AppendSample(current_segment_data,
                                     RgbOf(ticks', image_buffer'[1]),
                                     TargetsOf(vehicle_control', vehicle_speed',
                                               GetNavigationCommand(agent, road_option')))
                 /\ segment_count' = segment_count + 1
                 /\ collected_frames' = collected_frames + 1
                 /\ pc' = IF CollectLoopGuard(segment_count', collected_frames')
                          THEN "COLLECTING" ELSE "SAVING"
    /\ UNCHANGED <<program, agent, wall_clock, reprompts,
                   skip_frames, current_command, save_command,
                   total_saved_segments, total_saved_frames, h5_files, save_offered,
                   error>>
    /\ interrupted_at' = interrupted_at
    /\ UNCHANGED <<ask_vars, verify_vars, run_vars, generate_vars, main_vars, adapter_vars>>

\* agent.run_step(), world.tick() or a vehicle query raises: nothing in
\* collect_data_interactive catches it
TickError ==
    /\ pc \in {"SKIPPING", "COLLECTING"}
    /\ pc' = "FAILED"
    /\ error' = "RuntimeError"
    /\ UNCHANGED <<program, agent, ticks, road_option, route_done, image_buffer, vehicle_speed,
                   vehicle_control,
                   current_segment_data, segment_count, collected_frames, skip_frames,
                   current_command, save_command, total_saved_segments,
                   total_saved_frames, h5_files, save_offered>>
    /\ interrupted_at' = interrupted_at
    /\ UNCHANGED <<wall_clock, reprompts>>
    /\ UNCHANGED <<ask_vars, verify_vars, run_vars, generate_vars, main_vars, adapter_vars>>

\* ------------------------------------------------------------ the automatic save
\* the effect of a _save_segment(save_path, command) call that returns
SaveSegmentCall(command) ==
    \E now \in wall_clock..MaxClock :
        LET chunks == SaveSegment(current_segment_data, command, now)
        IN  /\ wall_clock' = now
            /\ h5_files' = h5_files \o chunks
            /\ total_saved_segments' = total_saved_segments + Len(chunks)
            /\ total_saved_frames' = total_saved_frames + SumLen(chunks)

\* lines 602-609: save when segment_count > 0, then the route check
SaveAfterCollect ==
    /\ pc = "SAVING"
    /\ IF segment_count > 0
       THEN SaveSegmentCall(save_command)
       ELSE UNCHANGED <<wall_clock, h5_files, total_saved_segments, total_saved_frames>>
    /\ IF IsRouteCompleted(agent, route_done)
       THEN /\ pc' = "STOPPED"
            /\ current_command' = current_command
       ELSE MainLoopHead(collected_frames, road_option)
    /\ UNCHANGED <<program, agent, ticks, road_option, route_done, image_buffer, vehicle_speed,
                   vehicle_control,
                   current_segment_data, segment_count, collected_frames, skip_frames,
                   save_command, save_offered, error>>
    /\ interrupted_at' = interrupted_at
    /\ reprompts' = reprompts
    /\ UNCHANGED <<ask_vars, verify_vars, run_vars, generate_vars, main_vars, adapter_vars>>

\* h5py raises while the file is written: nothing in collect_data_interactive
\* catches it
SaveFails ==
    /\ pc = "SAVING"
    /\ segment_count > 0
    /\ pc' = "FAILED"
    /\ error' = "OSError"
    /\ UNCHANGED <<program, agent, ticks, road_option, route_done, image_buffer, vehicle_speed,
                   vehicle_control,
                   current_segment_data, segment_count, collected_frames, skip_frames,
                   current_command, save_command, total_saved_segments,
                   total_saved_frames, h5_files, save_offered>>
    /\ interrupted_at' = interrupted_at
    /\ UNCHANGED <<wall_clock, reprompts>>
    /\ UNCHANGED <<ask_vars, verify_vars, run_vars, generate_vars, main_vars, adapter_vars>>

\* ------------------------------------------------------------ interrupt
\* where the try block of collect_data_interactive blocks outside input()
Interruptible ==
    \/ pc \in {"AWAITING_DECISION", "SKIPPING", "COLLECTING"}
    \/ pc = "SAVING" /\ segment_count > 0

\* except KeyboardInterrupt, lines 620-625
Interrupt ==
    /\ Interruptible
    /\ IF segment_count > 0
       THEN /\ pc' = "FINAL_PROMPT"
            /\ save_offered' = TRUE
       ELSE /\ pc' = "STOPPED"
            /\ save_offered' = save_offered
    /\ interrupted_at' = pc
    /\ UNCHANGED <<program, agent, ticks, road_option, route_done, image_buffer, vehicle_speed,
                   vehicle_control,
                   current_segment_data, segment_count, collected_frames, skip_frames,
                   current_command, save_command, total_saved_segments,
                   total_saved_frames, h5_files, error>>
    /\ reprompts' = 0
    /\ wall_clock' = wall_clock
    /\ UNCHANGED <<ask_vars, verify_vars, run_vars, generate_vars, main_vars, adapter_vars>>

\* the answer is one of y, yes: line 627
FinalSave ==
    /\ pc = "FINAL_PROMPT"
    /\ SaveSegmentCall(current_command)
    /\ pc' = "STOPPED"
    /\ UNCHANGED <<program, agent, ticks, road_option, route_done, image_buffer, vehicle_speed,
                   vehicle_control,
                   current_segment_data, segment_count, collected_frames, skip_frames,
                   current_command, save_command, save_offered, error>>
    /\ interrupted_at' = interrupted_at
    /\ reprompts' = reprompts
    /\ UNCHANGED <<ask_vars, verify_vars, run_vars, generate_vars, main_vars, adapter_vars>>

\* the answer is confirmed and the write raises
FinalSaveFails ==
    /\ pc = "FINAL_PROMPT"
    /\ pc' = "FAILED"
    /\ error' = "OSError"
    /\ UNCHANGED <<program, agent, ticks, road_option, route_done, image_buffer, vehicle_speed,
                   vehicle_control,
                   current_segment_data, segment_count, collected_frames, skip_frames,
                   current_command, save_command, total_saved_segments,
                   total_saved_frames, h5_files, save_offered>>
    /\ interrupted_at' = interrupted_at
    /\ UNCHANGED <<wall_clock, reprompts>>
    /\ UNCHANGED <<ask_vars, verify_vars, run_vars, generate_vars, main_vars, adapter_vars>>

\* any other answer
FinalDiscard ==
    /\ pc = "FINAL_PROMPT"
    /\ pc' = "STOPPED"
    /\ UNCHANGED <<program, agent, ticks, road_option, route_done, image_buffer, vehicle_speed,
                   vehicle_control,
                   current_segment_data, segment_count, collected_frames, skip_frames,
                   current_command, save_command, total_saved_segments,
                   total_saved_frames, h5_files, save_offered, error>>
    /\ interrupted_at' = interrupted_at
    /\ UNCHANGED <<wall_clock, reprompts>>
    /\ UNCHANGED <<ask_vars, verify_vars, run_vars, generate_vars, main_vars, adapter_vars>>

\* a second interrupt, inside the handler's input() or write
FinalInterrupted ==
    /\ pc = "FINAL_PROMPT"
    /\ pc' = "FAILED"
    /\ error' = "KeyboardInterrupt"
    /\ UNCHANGED <<program, agent, ticks, road_option, route_done, image_buffer, vehicle_speed,
                   vehicle_control,
                   current_segment_data, segment_count, collected_frames, skip_frames,
                   current_command, save_command, total_saved_segments,
                   total_saved_frames, h5_files, save_offered>>
    /\ interrupted_at' = interrupted_at
    /\ UNCHANGED <<wall_clock, reprompts>>
    /\ UNCHANGED <<ask_vars, verify_vars, run_vars, generate_vars, main_vars, adapter_vars>>

InteractiveNext ==
    \/ Approve
    \/ Reject
    \/ Stop
    \/ InvalidInput
    \/ SkipTick
    \/ CollectTick
    \/ TickError
    \/ SaveAfterCollect
    \/ SaveFails
    \/ Interrupt
    \/ FinalSave
    \/ FinalSaveFails
    \/ FinalDiscard
    \/ FinalInterrupted

\* ------------------------------------------------------------ automated collector
\* top of the loop of _auto_collect_data: while collected_frames < max_frames
AutoLoopHead(cf) == IF MainLoopGuard(cf) THEN "AUTO_COLLECTING" ELSE "AUTO_FINAL"

\* mutant: the flush comes one sample late
AutoFlushDue_Late(sc) == sc > SegmentLimit

\* if segment_count >= 200
AutoFlushDue(sc) == sc >= SegmentLimit

\* one iteration of the loop, lines 658-729, up to the write of a full segment
AutoTick ==
    /\ pc = "AUTO_COLLECTING"
    /\ ticks < MaxTicks
    /\ \E opt \in PlannerOptions, done \in BOOLEAN, delivered \in BOOLEAN,
          mean \in Brightness, speed \in Speeds :
         /\ WorldTick(opt, done, delivered, mean, speed)
         /\ IF IsRouteCompleted(agent, route_done')
            THEN \* break
                 /\ pc' = "AUTO_FINAL"
                 /\ UNCHANGED <<current_segment_data, segment_count, collected_frames>>
            ELSE IF Len(image_buffer') = 0
                    \/ QualityRejected(image_buffer'[1].mean, vehicle_speed')
            THEN \* continue
                 /\ pc' = "AUTO_COLLECTING"
                 /\ UNCHANGED <<current_segment_data, segment_count, collected_frames>>
            ELSE /\ current_segment_data' =
                        AppendSample(current_segment_data,
                                     RgbOf(ticks', image_buffer'[1]),
                                     TargetsOf(vehicle_control', vehicle_speed',
                                               GetNavigationCommand(agent, road_option')))
                 /\ segment_count' = segment_count + 1
                 /\ collected_frames' = collected_frames + 1
                 /\ pc' = IF AutoFlushDue(segment_count')
                          THEN "AUTO_FLUSHING" ELSE AutoLoopHead(collected_frames')
    /\ UNCHANGED <<program, agent, wall_clock, reprompts,
                   skip_frames, current_command, save_command,
                   total_saved_segments, total_saved_frames, h5_files, save_offered,
                   error>>
    /\ interrupted_at' = interrupted_at
    /\ UNCHANGED <<ask_vars, verify_vars, run_vars, generate_vars, main_vars, adapter_vars>>

\* lines 717-723: _save_segment_auto(current_segment_data, save_path, current_cmd),
\* then the segment is reset
AutoFlush ==
    /\ pc = "AUTO_FLUSHING"
    /\ \E now \in wall_clock..MaxClock :
          /\ wall_clock' = now
          /\ h5_files' = h5_files \o
                SaveSegmentAuto(current_segment_data,
                                GetNavigationCommand(agent, road_option), now)
    /\ current_segment_data' = EmptySegment
    /\ segment_count' = 0
    /\ pc' = AutoLoopHead(collected_frames)
    /\ UNCHANGED <<program, agent, ticks, road_option, route_done, image_buffer, vehicle_speed,
                   vehicle_control, collected_frames, skip_frames, current_command, save_command,
                   total_saved_segments, total_saved_frames, save_offered, error>>
    /\ interrupted_at' = interrupted_at
    /\ reprompts' = reprompts
    /\ UNCHANGED <<ask_vars, verify_vars, run_vars, generate_vars, main_vars, adapter_vars>>

\* lines 732-738: the remaining samples are saved under current_command, return True
AutoFinish ==
    /\ pc = "AUTO_FINAL"
    /\ IF segment_count > 0
       THEN \E now \in wall_clock..MaxClock :
               /\ wall_clock' = now
               /\ h5_files' = h5_files \o
                     SaveSegmentAuto(current_segment_data, current_command, now)
       ELSE UNCHANGED <<wall_clock, h5_files>>
    /\ pc' = "AUTO_DONE"
    /\ UNCHANGED <<program, agent, ticks, road_option, route_done, image_buffer, vehicle_speed,
                   vehicle_control,
                   current_segment_data, segment_count, collected_frames, skip_frames,
                   current_command, save_command, total_saved_segments,
                   total_saved_frames, save_offered, error>>
    /\ interrupted_at' = interrupted_at
    /\ reprompts' = reprompts
    /\ UNCHANGED <<ask_vars, verify_vars, run_vars, generate_vars, main_vars, adapter_vars>>

\* except Exception, lines 740-744: a simulator call or a write raises, return False
AutoError ==
    /\ \/ pc \in {"AUTO_COLLECTING", "AUTO_FLUSHING"}
       \/ pc = "AUTO_FINAL" /\ segment_count > 0
    /\ pc' = "AUTO_FAILED"
    /\ error' = IF pc = "AUTO_COLLECTING" THEN "RuntimeError" ELSE "OSError"
    /\ UNCHANGED <<program, agent, ticks, road_option, route_done, image_buffer, vehicle_speed,
                   vehicle_control,
                   current_segment_data, segment_count, collected_frames, skip_frames,
                   current_command, save_command, total_saved_segments,
                   total_saved_frames, h5_files, save_offered>>
    /\ interrupted_at' = interrupted_at
    /\ UNCHANGED <<wall_clock, reprompts>>
    /\ UNCHANGED <<ask_vars, verify_vars, run_vars, generate_vars, main_vars, adapter_vars>>

\* a KeyboardInterrupt is no Exception: it leaves _auto_collect_data
AutoInterrupt ==
    /\ \/ pc \in {"AUTO_COLLECTING", "AUTO_FLUSHING"}
       \/ pc = "AUTO_FINAL" /\ segment_count > 0
    /\ pc' = "AUTO_INTERRUPTED"
    /\ error' = "KeyboardInterrupt"
    /\ UNCHANGED <<program, agent, ticks, road_option, route_done, image_buffer, vehicle_speed,
                   vehicle_control,
                   current_segment_data, segment_count, collected_frames, skip_frames,
                   current_command, save_command, total_saved_segments,
                   total_saved_frames, h5_files, save_offered>>
    /\ interrupted_at' = interrupted_at
    /\ UNCHANGED <<wall_clock, reprompts>>
    /\ UNCHANGED <<ask_vars, verify_vars, run_vars, generate_vars, main_vars, adapter_vars>>

AutoNext ==
    \/ AutoTick
    \/ AutoFlush
    \/ AutoFinish
    \/ AutoError
    \/ AutoInterrupt

Next == InteractiveNext \/ AutoNext

Spec == Init /\ [][Next]_vars

\* ------------------------------------------------------------ _save_segment on its own
\* longest buffer handed to _save_segment: two full chunks and one sample
MaxSamples == 2 * SegmentLimit + 1

\* a buffer of K samples as the collect loop builds it, sample j taken on tick j
BufferOf(means, cmd) ==
    [rgb     |-> [j \in 1..Len(means) |-> RgbOf(j, [id |-> j, mean |-> means[j]])],
     targets |-> [j \in 1..Len(means) |->
                    TargetsOf(RunStepControl("LANEFOLLOW"), MaxSpeed, cmd)]]

\* the buffers _save_segment is applied to: every length up to MaxSamples
Buffers ==
    UNION {{BufferOf(means, cmd) :
               means \in [1..K -> {MinBrightness, MinBrightness + 1}],
               cmd \in Commands} : K \in 0..MaxSamples}

SaveSegmentInit ==
    /\ program = "writer"
    /\ pc = "WRITER_CALLED"
    /\ agent = FALSE
    /\ ticks = 0
    /\ road_option = "LANEFOLLOW"
    /\ route_done = FALSE
    /\ image_buffer = <<>>
    /\ vehicle_speed = MaxSpeed
    /\ vehicle_control = RunStepControl(road_option)
    /\ wall_clock = 0
    /\ reprompts = 0
    /\ current_segment_data \in Buffers
    /\ segment_count = Len(current_segment_data.rgb)
    /\ collected_frames = segment_count
    /\ skip_frames = 0
    /\ current_command \in Commands
    /\ save_command = current_command
    /\ total_saved_segments = 0
    /\ total_saved_frames = 0
    /\ h5_files = <<>>
    /\ save_offered = FALSE
    /\ interrupted_at = "none"
    /\ error = "none"
    /\ AskIdle
    /\ VerifyIdle
    /\ RunIdle
    /\ OthersIdle

\* _save_segment(save_path, command) runs to its end
SaveSegmentReturns ==
    /\ pc = "WRITER_CALLED"
    /\ SaveSegmentCall(save_command)
    /\ pc' = "WRITER_RETURNED"
    /\ UNCHANGED <<program, agent, ticks, road_option, route_done, image_buffer,
                   vehicle_speed, vehicle_control, reprompts,
                   current_segment_data, segment_count, collected_frames, skip_frames,
                   current_command, save_command, save_offered, interrupted_at, error>>
    /\ UNCHANGED <<ask_vars, verify_vars, run_vars, generate_vars, main_vars, adapter_vars>>

SaveSegmentSpec == SaveSegmentInit /\ [][SaveSegmentReturns]_vars

\* ------------------------------------------------------------ _get_navigation_command on its own
\* no segment is open and nothing was written
SegmentIdle ==
    /\ reprompts = 0
    /\ current_segment_data = EmptySegment
    /\ segment_count = 0
    /\ collected_frames = 0
    /\ skip_frames = 0
    /\ save_command = -1
    /\ total_saved_segments = 0
    /\ total_saved_frames = 0
    /\ h5_files = <<>>
    /\ save_offered = FALSE
    /\ interrupted_at = "none"
    /\ error = "none"

\* no simulation runs
WorldIdle ==
    /\ agent = FALSE
    /\ ticks = 0
    /\ road_option = "LANEFOLLOW"
    /\ route_done = FALSE
    /\ image_buffer = <<>>
    /\ vehicle_speed = 0
    /\ vehicle_control = RunStepControl(road_option)
    /\ wall_clock = 0
    /\ current_command = 2

NavigationInit ==
    /\ program = "navigation"
    /\ pc = "NAV_READY"
    /\ agent \in BOOLEAN
    /\ ticks = 0
    /\ road_option = "None"
    /\ route_done = FALSE
    /\ image_buffer = <<>>
    /\ vehicle_speed = 0
    /\ vehicle_control = RunStepControl(road_option)
    /\ wall_clock = 0
    /\ current_command = 2
    /\ SegmentIdle
    /\ AskIdle
    /\ VerifyIdle
    /\ RunIdle
    /\ OthersIdle

\* one read of the planner: self.current_command = self._get_navigation_command()
\* and self._is_route_completed(), with agent.done() answering done
ReadNavigation ==
    /\ pc \in {"NAV_READY", "NAV_READ"}
    /\ ticks < MaxTicks
    /\ \E reading \in PlannerReadings, done \in BOOLEAN :
          /\ road_option' = reading
          /\ current_command' = GetNavigationCommand(agent, reading)
          /\ route_done' = IsRouteCompleted(agent, done)
    /\ ticks' = ticks + 1
    /\ pc' = "NAV_READ"
    /\ UNCHANGED <<program, agent, image_buffer, vehicle_speed, vehicle_control, wall_clock,
                   reprompts, current_segment_data, segment_count, collected_frames,
                   skip_frames, save_command, total_saved_segments, total_saved_frames,
                   h5_files, save_offered, interrupted_at, error>>
    /\ UNCHANGED <<ask_vars, verify_vars, run_vars, generate_vars, main_vars, adapter_vars>>

NavigationSpec == NavigationInit /\ [][ReadNavigation]_vars

\* ------------------------------------------------------------ _ask_user_save_segment on its own
\* a line of input is the sequence of its characters; a character outside
\* ASCII is written as its code point: U+4FDD U+5B58 (save), U+8DF3 U+8FC7
\* (skip), U+505C U+6B62 (stop)
Whitespace == {" ", "\t", "\n"}

LowerOf ==
    ("A" :> "a") @@ ("E" :> "e") @@ ("I" :> "i") @@ ("K" :> "k") @@ ("N" :> "n")
    @@ ("O" :> "o") @@ ("P" :> "p") @@ ("Q" :> "q") @@ ("S" :> "s") @@ ("T" :> "t")
    @@ ("U" :> "u") @@ ("V" :> "v") @@ ("X" :> "x") @@ ("Y" :> "y")

\* mutant: the case of the answer is kept
Lower_Identity(line) == line

\* str.lower()
Lower(line) ==
    [k \in 1..Len(line) |-> IF line[k] \in DOMAIN LowerOf THEN LowerOf[line[k]] ELSE line[k]]

\* str.strip()
RECURSIVE Strip(_)
Strip(line) ==
    IF line = <<>> THEN line
    ELSE IF Head(line) \in Whitespace THEN Strip(Tail(line))
    ELSE IF line[Len(line)] \in Whitespace THEN Strip(SubSeq(line, 1, Len(line) - 1))
    ELSE line

\* ['U+4FDD U+5B58', 'save', 's', 'y', 'yes']
SaveChoices ==
    {<<"U+4FDD", "U+5B58">>, <<"s", "a", "v", "e">>, <<"s">>, <<"y">>, <<"y", "e", "s">>}

\* ['U+8DF3 U+8FC7', 'skip', 'n', 'no']
SkipChoices ==
    {<<"U+8DF3", "U+8FC7">>, <<"s", "k", "i", "p">>, <<"n">>, <<"n", "o">>}

\* ['U+505C U+6B62', 'stop', 'q', 'quit']
StopChoices ==
    {<<"U+505C", "U+6B62">>, <<"s", "t", "o", "p">>, <<"q">>, <<"q", "u", "i", "t">>}

\* what one pass of the prompt loop does with the line read: return True,
\* False or None, or ask again
AskUserSaveSegment(line) ==
    LET c == Lower(Strip(line))
    IN  IF c \in SaveChoices THEN "True"
        ELSE IF c \in SkipChoices THEN "False"
        ELSE IF c \in StopChoices THEN "None"
        ELSE "pending"

\* the upper-case spelling of a word
UpperOf(c) == IF \E u \in DOMAIN LowerOf : LowerOf[u] = c
              THEN CHOOSE u \in DOMAIN LowerOf : LowerOf[u] = c ELSE c

ToUpper(word) == [k \in 1..Len(word) |-> UpperOf(word[k])]

Capitalised(word) ==
    [k \in 1..Len(word) |-> IF k = 1 THEN UpperOf(word[k]) ELSE word[k]]

\* the ways a word is typed: in lower case, in upper case, capitalised, with
\* blanks before it and with blanks and the line end after it
TypedAs(word) ==
    {word, ToUpper(word), Capitalised(word),
     <<" ">> \o word, word \o <<" ", "\n">>, <<"\t">> \o ToUpper(word) \o <<" ">>}

\* words that are no choice: the empty line, a blank inside a choice, a
\* prefix of a choice, a choice with something after it
OtherWords ==
    {<<>>, <<"x">>, <<"y", "e">>, <<"s", " ", "a", "v", "e">>, <<"n", "o", "t">>,
     <<"q", "q">>, <<"U+4FDD">>, <<"s", "a", "v", "e", "s">>}

\* the lines the operator types
TypedLines == UNION {TypedAs(w) : w \in SaveChoices \cup SkipChoices \cup StopChoices \cup OtherWords}

AskInit ==
    /\ program = "ask"
    /\ pc = "ASK_PROMPT"
    /\ WorldIdle
    /\ SegmentIdle
    /\ choice = <<>>
    /\ user_choice = "pending"
    /\ VerifyIdle
    /\ RunIdle
    /\ OthersIdle

\* one pass of the while True loop: input() returns a line
AnswerRead ==
    /\ pc = "ASK_PROMPT"
    /\ reprompts < MaxReprompts + 1
    /\ \E line \in TypedLines :
          /\ choice' = line
          /\ user_choice' = AskUserSaveSegment(line)
    /\ IF user_choice' = "pending"
       THEN pc' = "ASK_PROMPT" /\ reprompts' = reprompts + 1
       ELSE pc' = "ASK_RETURNED" /\ reprompts' = reprompts
    /\ UNCHANGED <<program, agent, ticks, road_option, route_done, image_buffer,
                   vehicle_speed, vehicle_control, wall_clock,
                   current_segment_data, segment_count, collected_frames, skip_frames,
                   current_command, save_command, total_saved_segments, total_saved_frames,
                   h5_files, save_offered, interrupted_at, error>>
    /\ UNCHANGED <<verify_vars, run_vars, generate_vars, main_vars, adapter_vars>>

\* except KeyboardInterrupt inside the loop: return None
AnswerInterrupted ==
    /\ pc = "ASK_PROMPT"
    /\ user_choice' = "None"
    /\ interrupted_at' = pc
    /\ pc' = "ASK_RETURNED"
    /\ UNCHANGED <<program, agent, ticks, road_option, route_done, image_buffer,
                   vehicle_speed, vehicle_control, wall_clock, reprompts,
                   current_segment_data, segment_count, collected_frames, skip_frames,
                   current_command, save_command, total_saved_segments, total_saved_frames,
                   h5_files, save_offered, error, choice>>
    /\ UNCHANGED <<verify_vars, run_vars, generate_vars, main_vars, adapter_vars>>

AskNext == AnswerRead \/ AnswerInterrupted

AskSpec == AskInit /\ [][AskNext]_vars

\* ------------------------------------------------------------ vocabulary of the properties
\* ------------------------------------------------------------ DataVerifier
\* verify_collected_data.py: the data directory is the sequence of its files
\* in the order os.walk lists them; a file has a name (its parts, the last one
\* the extension), a size and a content

\* the number of files of the directories explored
MaxFiles == 2

\* the shape of one image the verifier expects
ImageShape == <<88, 200, 3>>

\* an HDF5 file with n images of the given shape and mean, and m target rows
\* of the given width
Hdf5(n, shape, mean, m, width, steer, speed, cmd) ==
    [kind    |-> "hdf5",
     rgb     |-> [j \in 1..n |-> [shape |-> shape, mean |-> mean]],
     targets |-> [j \in 1..m |->
                    [i \in 0..(width - 1) |->
                        TargetsOf([steer |-> steer, throttle |-> 1, brake |-> 0],
                                  speed, cmd)[i]]]]

\* a chunk as the collectors write it
ChunkContent(n, mean, steer, speed, cmd) ==
    Hdf5(n, ImageShape, mean, n, TargetsLen, steer, speed, cmd)

\* the contents explored: full and short chunks, chunks that raise a warning,
\* files the verifier cannot read
FileContents ==
    {ChunkContent(SegmentLimit, MinBrightness, 0, MaxSpeed, 2),
     ChunkContent(SegmentLimit - 1, MinBrightness, -1, MaxSpeed, 3),
     ChunkContent(SegmentLimit, MinBrightness - 1, 0, MaxSpeed, 2),
     ChunkContent(SegmentLimit, MinBrightness, 0, MaxSpeed + 1, 4),
     ChunkContent(SegmentLimit - 1, MinBrightness, 2, MaxSpeed, 1),
     ChunkContent(0, MinBrightness, 0, MaxSpeed, 2),
     Hdf5(2, ImageShape, MinBrightness, 1, TargetsLen, 0, MaxSpeed, 2),
     Hdf5(1, <<88, 200, 1>>, MinBrightness, 1, TargetsLen, 0, MaxSpeed, 2),
     Hdf5(1, ImageShape, MinBrightness, 1, TargetsLen - 1, 0, MaxSpeed, 2),
     [kind |-> "hdf5", rgb |-> <<[shape |-> ImageShape, mean |-> MinBrightness]>>],
     [kind |-> "text"]}

\* the file names explored
FileNames ==
    {<<"carla_cmd2_Follow", ".h5">>, <<"carla_cmd3_Left", ".h5">>,
     <<"carla_cmd2_Follow", ".h5", ".bak">>, <<"notes", ".H5">>}

ReportPng == <<"verification_report", ".png">>
ReportJson == <<"verification_report", ".json">>

\* the directories explored: up to MaxFiles files of different names
Directories ==
    UNION {{d \in [1..n -> [name : FileNames, size : {1}, content : FileContents]] :
               \A i, j \in 1..n : i # j => d[i].name # d[j].name} : n \in 0..MaxFiles}

\* mutant: every file of the directory is taken for a chunk
EndsWithH5_Always(name) == Len(name) >= 1

\* f.endswith('.h5')
EndsWithH5(name) == Len(name) >= 1 /\ name[Len(name)] = ".h5"

RECURSIVE FindH5Files(_)
\* _find_h5_files: the files whose name ends with '.h5', in the order of the
\* listing
FindH5Files(path) ==
    IF path = <<>> THEN <<>>
    ELSE LET rest == FindH5Files(Tail(path))
         IN  IF EndsWithH5(Head(path).name) THEN <<Head(path)>> \o rest ELSE rest

RECURSIVE SumOf(_, _)
\* the sum of f[1..n]
SumOf(f, n) == IF n = 0 THEN 0 ELSE f[n] + SumOf(f, n - 1)

\* targets[:, i]
Column(targets, i) == [j \in 1..Len(targets) |-> targets[j][i]]

RangeOf(seq) == {seq[j] : j \in 1..Len(seq)}

\* the statistics before the first file
EmptyStatistics ==
    [returned         |-> TRUE,
     total_frames     |-> 0,
     command_stats    |-> <<>>,
     speed_stats      |-> <<>>,
     steer_stats      |-> <<>>,
     throttle_stats   |-> <<>>,
     brake_stats      |-> <<>>,
     file_sizes       |-> <<>>,
     corrupted_files  |-> <<>>,
     warning_files    |-> <<>>,
     incomplete_files |-> <<>>,
     total_files      |-> 0]

\* command_stats[int(cmd)] += cmd_count for every command of the file
AddCommands(command_stats, commands) ==
    [c \in (DOMAIN command_stats) \cup RangeOf(commands) |->
        (IF c \in DOMAIN command_stats THEN command_stats[c] ELSE 0)
        + Cardinality({j \in 1..Len(commands) : commands[j] = c})]

\* the checks that raise inside the try block before anything is counted:
\* h5py cannot open the file, a dataset is missing, the shapes are wrong
Unreadable(content) ==
    \/ content.kind # "hdf5"
    \/ "rgb" \notin DOMAIN content
    \/ "targets" \notin DOMAIN content
    \/ Len(content.rgb) # Len(content.targets)
    \/ \E j \in 1..Len(content.rgb) : content.rgb[j].shape # ImageShape
    \/ \E j \in 1..Len(content.targets) :
          DOMAIN content.targets[j] # 0..(TargetsLen - 1)

\* the warnings of a file with at least one frame; the control values of the
\* model are whole numbers, so that x > 1.1 is x >= 2 and x < -0.1 is x <= -1
WarningsOf(content) ==
    LET n == Len(content.rgb)
        means == [j \in 1..n |-> content.rgb[j].mean]
        speeds == Column(content.targets, 10)
        steers == Column(content.targets, 0)
        throttles == Column(content.targets, 1)
        brakes == Column(content.targets, 2)
        commands == Column(content.targets, 24)
    IN  (IF SumOf(means, n) < MinBrightness * n THEN <<"dark">> ELSE <<>>)
        \o (IF \E j \in 1..n : speeds[j] > MaxSpeed THEN <<"speed">> ELSE <<>>)
        \o (IF \E j \in 1..n : steers[j] <= -2 \/ steers[j] >= 2
            THEN <<"steer">> ELSE <<>>)
        \o (IF \E j \in 1..n : throttles[j] <= -1 \/ throttles[j] >= 2
            THEN <<"throttle">> ELSE <<>>)
        \o (IF \E j \in 1..n : brakes[j] <= -1 \/ brakes[j] >= 2
            THEN <<"brake">> ELSE <<>>)
        \o (IF RangeOf(commands) \ {0, 2, 3, 4, 5} # {} THEN <<"command">> ELSE <<>>)

\* one pass of the for loop of verify_all over a file
VerifyFile(st, file) ==
    IF Unreadable(file.content)
    THEN [st EXCEPT !.corrupted_files = Append(@, file.name)]
    ELSE LET content == file.content
             n == Len(content.rgb)
             counted ==
                 [st EXCEPT !.total_frames = @ + n,
                            !.command_stats = AddCommands(@, Column(content.targets, 24)),
                            !.speed_stats = @ \o Column(content.targets, 10),
                            !.steer_stats = @ \o Column(content.targets, 0),
                            !.throttle_stats = @ \o Column(content.targets, 1),
                            !.brake_stats = @ \o Column(content.targets, 2),
                            !.file_sizes = Append(@, file.size)]
         IN  IF n = 0
             \* np.max of an empty array raises after the file was counted
             THEN [counted EXCEPT !.corrupted_files = Append(@, file.name)]
             ELSE LET warnings == WarningsOf(content)
                      short ==
                          IF n < SegmentLimit
                          THEN [counted EXCEPT
                                   !.incomplete_files = Append(@, <<file.name, n>>)]
                          ELSE counted
                  IN  IF warnings # <<>>
                      THEN [short EXCEPT
                               !.warning_files = Append(@, <<file.name, warnings>>)]
                      ELSE short

RECURSIVE VerifyFiles(_, _)
\* the for loop of verify_all
VerifyFiles(st, files) ==
    IF files = <<>> THEN st
    ELSE VerifyFiles(VerifyFile(st, Head(files)), Tail(files))

\* the statistics verify_all computes and reports for a directory; it returns
\* early when the directory holds no .h5 file
VerifyAll(path) ==
    LET h5 == FindH5Files(path)
    IN  IF h5 = <<>> THEN [returned |-> FALSE]
        ELSE VerifyFiles([EmptyStatistics EXCEPT !.total_files = Len(h5)], h5)

\* open(path, 'w') and plt.savefig: the file is replaced, or added to the
\* directory
WriteFile(path, name, content) ==
    IF \E i \in 1..Len(path) : path[i].name = name
    THEN [i \in 1..Len(path) |->
             IF path[i].name = name
             THEN [name |-> name, size |-> 1, content |-> content]
             ELSE path[i]]
    ELSE Append(path, [name |-> name, size |-> 1, content |-> content])

\* _generate_visualizations and _save_verification_report
WriteReports(path, st, now) ==
    WriteFile(WriteFile(path, ReportPng, [kind |-> "png"]),
              ReportJson,
              [kind |-> "json", verification_time |-> now, summary |-> st])

VerifyInit ==
    /\ program = "verify"
    /\ pc = "VERIFY_READY"
    /\ WorldIdle
    /\ SegmentIdle
    /\ AskIdle
    /\ data_path \in Directories
    /\ statistics = [returned |-> FALSE]
    /\ previous_statistics = [returned |-> FALSE]
    /\ RunIdle
    /\ OthersIdle

\* DataVerifier(data_path).verify_all(), a first and a second time
VerifyAllRuns ==
    /\ pc \in {"VERIFY_READY", "VERIFIED_ONCE"}
    /\ pc' = IF pc = "VERIFY_READY" THEN "VERIFIED_ONCE" ELSE "VERIFIED_TWICE"
    /\ statistics' = VerifyAll(data_path)
    /\ previous_statistics' = statistics
    /\ \E now \in wall_clock..MaxClock :
          /\ wall_clock' = now
          /\ data_path' = IF statistics'.returned
                          THEN WriteReports(data_path, statistics', now)
                          ELSE data_path
    /\ UNCHANGED <<program, agent, ticks, road_option, route_done, image_buffer,
                   vehicle_speed, vehicle_control, reprompts,
                   current_segment_data, segment_count, collected_frames, skip_frames,
                   current_command, save_command, total_saved_segments, total_saved_frames,
                   h5_files, save_offered, interrupted_at, error>>
    /\ UNCHANGED <<ask_vars, run_vars, generate_vars, main_vars, adapter_vars>>

VerifySpec == VerifyInit /\ [][VerifyAllRuns]_vars

\* ------------------------------------------------------------ AutoFullTownCollector.run
\* auto_full_town_collection.py: the loop of run() over the route pairs

\* the number of route pairs generated
MaxRoutes == 3

\* the (start, end) spawn point pairs generate_route_pairs may give
RoutePairs == {<<0, 1>>, <<0, 2>>, <<1, 2>>}

\* the parameters of CommandBasedDataCollector.__init__
InitParams ==
    {"host", "port", "town", "ignore_traffic_lights", "ignore_signs",
     "ignore_vehicles_percentage"}

\* the keyword arguments collect_route_data passes to the constructor
CollectorKwargs ==
    {"host", "port", "town", "ignore_traffic_lights", "ignore_signs",
     "ignore_vehicles_percentage", "target_speed"}

\* the call CommandBasedDataCollector(**kwargs): a keyword the signature does
\* not have raises TypeError
NewCollector(kwargs) == IF kwargs \subseteq InitParams THEN "collector" ELSE "TypeError"

\* collect_route_data: what it returns when the simulator lets the spawn
\* succeed or not and _auto_collect_data would return auto
CollectRouteData(kwargs, spawned, auto) ==
    IF NewCollector(kwargs) = "TypeError" THEN "False"
    ELSE IF ~spawned THEN "False"
    ELSE auto

\* mutant: a failed route is recorded twice
FailedAfter_Twice(failed, pair, reason) ==
    failed \o <<<<pair[1], pair[2], reason>>, <<pair[1], pair[2], reason>>>>

\* self.failed_routes.append((start_idx, end_idx, reason))
FailedAfter(failed, pair, reason) == Append(failed, <<pair[1], pair[2], reason>>)

\* the state of the collector when run() is called; the directory save_path
\* may exist or not
RunInit ==
    /\ program = "run"
    /\ pc = "RUN_CONNECTING"
    /\ WorldIdle
    /\ SegmentIdle
    /\ AskIdle
    /\ VerifyIdle
    /\ route_idx = 0
    /\ route = "none"
    /\ success = "none"
    /\ total_routes_completed = 0
    /\ failed_routes = <<>>
    /\ total_routes_attempted = 0
    /\ start_time = "unbound"
    /\ save_path_exists \in BOOLEAN
    /\ final_statistics = "none"
    /\ npc_cleaned = FALSE
    /\ synchronous_mode = FALSE
    /\ OthersIdle

\* _print_final_statistics: the division by total_routes_attempted, the
\* prints, then open(stats_file, 'w') in save_path
PrintFinalStatistics(attempted, dir_exists) ==
    IF attempted = 0 THEN [final_statistics |-> "none", error |-> "ZeroDivisionError"]
    ELSE IF ~dir_exists THEN [final_statistics |-> "printed", error |-> "FileNotFoundError"]
    ELSE [final_statistics |-> "saved", error |-> "none"]

\* the except KeyboardInterrupt clause of run(): time.time() - start_time is
\* evaluated first, then _print_final_statistics
InterruptHandler(started, attempted, dir_exists) ==
    IF started = "unbound"
    THEN [final_statistics |-> "none", error |-> "UnboundLocalError"]
    ELSE PrintFinalStatistics(attempted, dir_exists)

\* the finally clause of run(): the NPC actors are destroyed and the world is
\* put back in asynchronous mode
RunFinally ==
    /\ npc_cleaned' = TRUE
    /\ synchronous_mode' = FALSE

\* self.connect(); an error of the client is printed by except Exception
RunConnect ==
    /\ pc = "RUN_CONNECTING"
    /\ \E connected \in BOOLEAN :
          IF connected
          THEN /\ pc' = "RUN_GENERATING"
               /\ error' = "none"
               /\ UNCHANGED <<npc_cleaned, synchronous_mode>>
          ELSE /\ pc' = "RUN_DONE"
               /\ error' = "connect"
               /\ RunFinally
    /\ UNCHANGED <<program, agent, ticks, road_option, route_done, image_buffer,
                   vehicle_speed, vehicle_control, wall_clock, reprompts,
                   current_segment_data, segment_count, collected_frames, skip_frames,
                   current_command, save_command, total_saved_segments, total_saved_frames,
                   h5_files, save_offered, interrupted_at,
                   route_idx, route, success, total_routes_completed, failed_routes,
                   total_routes_attempted, start_time, save_path_exists, final_statistics>>
    /\ UNCHANGED <<ask_vars, verify_vars, generate_vars, main_vars, adapter_vars>>

\* route_pairs = self.generate_route_pairs(); without routes run returns, with
\* routes start_time is taken and the for loop begins
RunGenerate ==
    /\ pc = "RUN_GENERATING"
    /\ \E empty \in BOOLEAN :
          IF empty
          THEN /\ pc' = "RUN_DONE"
               /\ start_time' = start_time
               /\ RunFinally
          ELSE /\ pc' = "RUN_NEXT_ROUTE"
               /\ start_time' = "bound"
               /\ UNCHANGED <<npc_cleaned, synchronous_mode>>
    /\ UNCHANGED <<program, agent, ticks, road_option, route_done, image_buffer,
                   vehicle_speed, vehicle_control, wall_clock, reprompts,
                   current_segment_data, segment_count, collected_frames, skip_frames,
                   current_command, save_command, total_saved_segments, total_saved_frames,
                   h5_files, save_offered, interrupted_at, error,
                   route_idx, route, success, total_routes_completed, failed_routes,
                   total_routes_attempted, save_path_exists, final_statistics>>
    /\ UNCHANGED <<ask_vars, verify_vars, generate_vars, main_vars, adapter_vars>>

\* the head of an iteration of the for loop: the route is counted as
\* attempted, then validate_route; a route that is not reachable is recorded
\* as failed and the loop continues
ValidateRoute ==
    /\ pc = "RUN_NEXT_ROUTE"
    /\ route_idx < MaxRoutes
    /\ route_idx' = route_idx + 1
    /\ total_routes_attempted' = total_routes_attempted + 1
    /\ \E pair \in RoutePairs, valid \in BOOLEAN :
          /\ route' = pair
          /\ IF valid
             THEN /\ pc' = "RUN_COLLECTING"
                  /\ failed_routes' = failed_routes
             ELSE /\ pc' = "RUN_NEXT_ROUTE"
                  /\ failed_routes' = FailedAfter(failed_routes, pair, "unreachable")
    /\ success' = "none"
    /\ error' = "none"
    /\ UNCHANGED <<program, agent, ticks, road_option, route_done, image_buffer,
                   vehicle_speed, vehicle_control, wall_clock, reprompts,
                   current_segment_data, segment_count, collected_frames, skip_frames,
                   current_command, save_command, total_saved_segments, total_saved_frames,
                   h5_files, save_offered, interrupted_at, total_routes_completed,
                   start_time, save_path_exists, final_statistics, npc_cleaned,
                   synchronous_mode>>
    /\ UNCHANGED <<ask_vars, verify_vars, generate_vars, main_vars, adapter_vars>>

\* the rest of the iteration: success = self.collect_route_data(...) and the
\* counting of the route; trouble is what the simulator and the disk do to
\* this route. Synchronous mode is set and save_path is created only behind
\* the constructor call
CollectRoute ==
    /\ pc = "RUN_COLLECTING"
    /\ \E trouble \in {"none", "spawn_failed", "raised"} :
          /\ error' = trouble
          /\ success' = CollectRouteData(CollectorKwargs, trouble # "spawn_failed",
                                         IF trouble = "raised" THEN "False" ELSE "True")
          /\ save_path_exists' =
                 (save_path_exists \/
                     (NewCollector(CollectorKwargs) = "collector" /\ trouble = "none"))
    /\ synchronous_mode' =
           (synchronous_mode \/ NewCollector(CollectorKwargs) = "collector")
    /\ IF success' = "True"
       THEN /\ total_routes_completed' = total_routes_completed + 1
            /\ failed_routes' = failed_routes
       ELSE /\ total_routes_completed' = total_routes_completed
            /\ failed_routes' = FailedAfter(failed_routes, route, "collect_failed")
    /\ pc' = "RUN_NEXT_ROUTE"
    /\ UNCHANGED <<program, agent, ticks, road_option, route_done, image_buffer,
                   vehicle_speed, vehicle_control, wall_clock, reprompts,
                   current_segment_data, segment_count, collected_frames, skip_frames,
                   current_command, save_command, total_saved_segments, total_saved_frames,
                   h5_files, save_offered, interrupted_at, route_idx, route,
                   total_routes_attempted, start_time, final_statistics, npc_cleaned>>
    /\ UNCHANGED <<ask_vars, verify_vars, generate_vars, main_vars, adapter_vars>>

\* the for loop is exhausted: the final statistics are printed and saved; an
\* error of the save is printed by except Exception; then the finally clause
RunFinish ==
    /\ pc = "RUN_NEXT_ROUTE"
    /\ route_idx = MaxRoutes
    /\ pc' = "RUN_DONE"
    /\ LET done == PrintFinalStatistics(total_routes_attempted, save_path_exists)
       IN  /\ final_statistics' = done.final_statistics
           /\ error' = done.error
    /\ RunFinally
    /\ UNCHANGED <<program, agent, ticks, road_option, route_done, image_buffer,
                   vehicle_speed, vehicle_control, wall_clock, reprompts,
                   current_segment_data, segment_count, collected_frames, skip_frames,
                   current_command, save_command, total_saved_segments, total_saved_frames,
                   h5_files, save_offered, interrupted_at,
                   route_idx, route, success, total_routes_completed, failed_routes,
                   total_routes_attempted, start_time, save_path_exists>>
    /\ UNCHANGED <<ask_vars, verify_vars, generate_vars, main_vars, adapter_vars>>

\* KeyboardInterrupt inside connect, generate_route_pairs, validate_route
\* (the route is already counted as attempted) or collect_route_data: the
\* except KeyboardInterrupt clause, whose own error propagates, then the
\* finally clause
RunInterrupt ==
    /\ \/ pc \in {"RUN_CONNECTING", "RUN_GENERATING", "RUN_COLLECTING"}
       \/ pc = "RUN_NEXT_ROUTE" /\ route_idx < MaxRoutes
    /\ interrupted_at' = pc
    /\ pc' = "RUN_DONE"
    /\ total_routes_attempted' =
           IF pc = "RUN_NEXT_ROUTE" THEN total_routes_attempted + 1
           ELSE total_routes_attempted
    /\ LET handled == InterruptHandler(start_time, total_routes_attempted', save_path_exists)
       IN  /\ final_statistics' = handled.final_statistics
           /\ error' = handled.error
    /\ RunFinally
    /\ UNCHANGED <<program, agent, ticks, road_option, route_done, image_buffer,
                   vehicle_speed, vehicle_control, wall_clock, reprompts,
                   current_segment_data, segment_count, collected_frames, skip_frames,
                   current_command, save_command, total_saved_segments, total_saved_frames,
                   h5_files, save_offered,
                   route_idx, route, success, total_routes_completed, failed_routes,
                   start_time, save_path_exists>>
    /\ UNCHANGED <<ask_vars, verify_vars, generate_vars, main_vars, adapter_vars>>

RunNext ==
    \/ RunConnect
    \/ RunGenerate
    \/ ValidateRoute
    \/ CollectRoute
    \/ RunFinish
    \/ RunInterrupt

RunSpec == RunInit /\ [][RunNext]_vars

\* ------------------------------------------------------------ generate_route_pairs
\* auto_full_town_collection.py: the route pairs of the spawn points

\* self.min_distance and self.max_distance, in metres
MinDistance == 50
MaxDistance == 500

\* the number of spawn points of the maps explored
NumSpawns == 3

\* range(num_spawns)
SpawnIndexes == 0..(NumSpawns - 1)

\* the straight-line distances explored, around the two thresholds
SpawnDistances ==
    {MinDistance - 1, MinDistance, MinDistance + 1, MaxDistance, MaxDistance + 1}

\* the pairs of different spawn points, without order
SpawnPairs == {pair \in SpawnIndexes \X SpawnIndexes : pair[1] < pair[2]}

\* _calculate_distance between spawn points i and j of the map
CalculateDistance(points, i, j) ==
    IF i = j THEN 0
    ELSE IF i < j THEN points[<<i, j>>] ELSE points[<<j, i>>]

\* the maps explored: distances in the plane satisfy the triangle inequality
Maps ==
    {points \in [SpawnPairs -> SpawnDistances] :
        \A i, j, k \in SpawnIndexes :
            CalculateDistance(points, i, k)
                <= CalculateDistance(points, i, j) + CalculateDistance(points, j, k)}

\* self.min_distance <= distance <= self.max_distance
DistanceInRange(distance) == MinDistance <= distance /\ distance <= MaxDistance

RECURSIVE EndsFrom(_, _, _)
\* the inner loop over end_idx from index e on: the (end_idx, distance) of the
\* ends in range, in the order of the index
EndsFrom(points, start, e) ==
    IF e >= NumSpawns THEN <<>>
    ELSE LET distance == CalculateDistance(points, start, e)
             rest == EndsFrom(points, start, e + 1)
         IN  IF e # start /\ DistanceInRange(distance)
             THEN <<<<e, distance>>>> \o rest
             ELSE rest

RECURSIVE InsertByDistance(_, _)
\* x put behind every entry of the sorted list that is not farther than x
InsertByDistance(x, sorted) ==
    IF sorted = <<>> THEN <<x>>
    ELSE IF Head(sorted)[2] <= x[2]
         THEN <<Head(sorted)>> \o InsertByDistance(x, Tail(sorted))
         ELSE <<x>> \o sorted

RECURSIVE SortByDistance(_)
\* valid_ends.sort(key=lambda x: x[1]): a stable sort
SortByDistance(ends) ==
    IF ends = <<>> THEN <<>>
    ELSE InsertByDistance(ends[Len(ends)], SortByDistance(SubSeq(ends, 1, Len(ends) - 1)))

\* the entries a start contributes in the smart strategy: the ends at the
\* indices 0, num_ends // 2 and num_ends - 1 of the sorted list
SmartEntries(points, start) ==
    LET valid_ends == SortByDistance(EndsFrom(points, start, 0))
        num_ends == Len(valid_ends)
        selected_indices == <<0, num_ends \div 2, num_ends - 1>>
    IN  IF num_ends = 0 THEN <<>>
        ELSE [k \in 1..3 |->
                 <<start, valid_ends[selected_indices[k] + 1][1],
                   valid_ends[selected_indices[k] + 1][2]>>]

\* the entries a start contributes in the exhaustive strategy
ExhaustiveEntries(points, start) ==
    LET valid_ends == EndsFrom(points, start, 0)
    IN  [k \in 1..Len(valid_ends) |-> <<start, valid_ends[k][1], valid_ends[k][2]>>]

RECURSIVE RoutePairsFrom(_, _, _)
\* the outer loop over start_idx from index start on
RoutePairsFrom(points, strategy, start) ==
    IF start >= NumSpawns THEN <<>>
    ELSE (IF strategy = "smart" THEN SmartEntries(points, start)
          ELSE ExhaustiveEntries(points, start))
         \o RoutePairsFrom(points, strategy, start + 1)

\* the orders random.shuffle is explored with: the list as it is, reversed,
\* and turned by one place
Shuffles == {"same", "reversed", "turned"}

\* random.shuffle(route_pairs) with one of these outcomes
Shuffle(pairs, how) ==
    LET n == Len(pairs)
    IN  CASE how = "reversed" -> [k \in 1..n |-> pairs[n + 1 - k]]
          [] how = "turned" -> [k \in 1..n |-> pairs[(k % n) + 1]]
          [] OTHER -> pairs

GenerateInit ==
    /\ program = "generate"
    /\ pc = "GENERATE_READY"
    /\ WorldIdle
    /\ SegmentIdle
    /\ AskIdle
    /\ VerifyIdle
    /\ RunIdle
    /\ spawn_points \in Maps
    /\ route_generation_strategy \in {"smart", "exhaustive"}
    /\ route_pairs = <<>>
    /\ MainIdle
    /\ AdapterIdle

\* route_pairs = self.generate_route_pairs()
GenerateRoutePairs ==
    /\ pc = "GENERATE_READY"
    /\ pc' = "GENERATE_RETURNED"
    /\ \E how \in Shuffles :
          route_pairs' =
              Shuffle(RoutePairsFrom(spawn_points, route_generation_strategy, 0), how)
    /\ UNCHANGED <<program, agent, ticks, road_option, route_done, image_buffer,
                   vehicle_speed, vehicle_control, wall_clock, reprompts,
                   current_segment_data, segment_count, collected_frames, skip_frames,
                   current_command, save_command, total_saved_segments, total_saved_frames,
                   h5_files, save_offered, interrupted_at, error,
                   spawn_points, route_generation_strategy>>
    /\ UNCHANGED <<ask_vars, verify_vars, run_vars, main_vars, adapter_vars>>

GenerateSpec == GenerateInit /\ [][GenerateRoutePairs]_vars

\* ------------------------------------------------------------ main
\* command_based_data_collection.py: main() of the interactive program, from
\* collector.connect() to collector.cleanup()

\* mutant: the actor is left in the simulator
Destroyed_Kept(actor) == actor

\* actor.destroy() behind `if actor is not None`
Destroyed(actor) == IF actor = "alive" THEN "destroyed" ELSE actor

\* the errors that come from the simulator, whose calls may fail again in
\* cleanup
SimulatorErrors == {"RuntimeError"}

MainInit ==
    /\ program = "interactive"
    /\ pc = "MAIN_CONNECT"
    /\ WorldIdle
    /\ SegmentIdle
    /\ AskIdle
    /\ VerifyIdle
    /\ RunIdle
    /\ GenerateIdle
    /\ MainIdle
    /\ AdapterIdle

\* what the steps before the collection leave alone
MainSetupUnchanged ==
    UNCHANGED <<program, road_option, image_buffer, vehicle_speed, vehicle_control,
                current_segment_data, segment_count, collected_frames, skip_frames,
                current_command, save_command, total_saved_segments, total_saved_frames,
                h5_files, save_offered, reprompts, wall_clock, ticks, route_done,
                cleanup_calls, cleanup_returned,
                route_idx, route, success, total_routes_completed, failed_routes,
                total_routes_attempted, start_time, save_path_exists, final_statistics,
                npc_cleaned, ask_vars, verify_vars, generate_vars, adapter_vars>>

\* collector.connect(): the client may fail before or after self.world is
\* set, or the operator interrupts the loading of the map; synchronous mode
\* is set at the end
MainConnect ==
    /\ pc = "MAIN_CONNECT"
    /\ \E outcome \in {"connected", "no_server", "settings_failed", "interrupt"} :
          /\ world' = IF outcome \in {"connected", "settings_failed"} THEN "world" ELSE world
          /\ synchronous_mode' = (outcome = "connected")
          /\ pc' = IF outcome = "connected" THEN "MAIN_SPAWN" ELSE "FAILED"
          /\ error' = CASE outcome = "connected" -> error
                        [] outcome = "interrupt" -> "KeyboardInterrupt"
                        [] OTHER -> "RuntimeError"
          /\ exit_path' = IF outcome = "connected" THEN exit_path ELSE "connect"
          /\ interrupted_at' = IF outcome = "interrupt" THEN pc ELSE interrupted_at
    /\ UNCHANGED <<agent, vehicle, camera>>
    /\ MainSetupUnchanged

\* collector.spawn_vehicle(...): False without a vehicle, or the vehicle and
\* (with the agents module) a BasicAgent; a tick or the agent may fail and the
\* operator may interrupt once the vehicle exists
MainSpawnVehicle ==
    /\ pc = "MAIN_SPAWN"
    /\ \E outcome \in {"spawned", "no_vehicle", "raised", "interrupt"},
          agents_available \in BOOLEAN :
          /\ vehicle' = IF outcome = "no_vehicle" THEN vehicle ELSE "alive"
          /\ agent' = (outcome = "spawned" /\ agents_available)
          /\ pc' = CASE outcome = "spawned" -> "MAIN_CAMERA"
                     [] outcome = "no_vehicle" -> "STOPPED"
                     [] OTHER -> "FAILED"
          /\ error' = CASE outcome = "raised" -> "RuntimeError"
                        [] outcome = "interrupt" -> "KeyboardInterrupt"
                        [] OTHER -> error
          /\ exit_path' = IF outcome = "spawned" THEN exit_path ELSE "spawn"
          /\ interrupted_at' = IF outcome = "interrupt" THEN pc ELSE interrupted_at
    /\ UNCHANGED <<world, camera, synchronous_mode>>
    /\ MainSetupUnchanged

\* collector.setup_camera() and time.sleep(1.0)
MainSetupCamera ==
    /\ pc = "MAIN_CAMERA"
    /\ \E outcome \in {"listening", "raised", "interrupt"} :
          /\ camera' = IF outcome = "raised" THEN camera ELSE "alive"
          /\ pc' = IF outcome = "listening" THEN "MAIN_COLLECT" ELSE "FAILED"
          /\ error' = CASE outcome = "raised" -> "RuntimeError"
                        [] outcome = "interrupt" -> "KeyboardInterrupt"
                        [] OTHER -> error
          /\ exit_path' = IF outcome = "listening" THEN exit_path ELSE "camera"
          /\ interrupted_at' = IF outcome = "interrupt" THEN pc ELSE interrupted_at
    /\ UNCHANGED <<agent, world, vehicle, synchronous_mode>>
    /\ MainSetupUnchanged

\* collect_data_interactive up to its try block: the first frame is waited
\* for, the first command is read; a tick may fail and an interrupt here is
\* not caught by the collector
MainEnterCollection ==
    /\ pc = "MAIN_COLLECT"
    /\ \E outcome \in {"ready", "raised", "interrupt"} :
          IF outcome = "ready"
          THEN /\ pc' = "AWAITING_DECISION"
               /\ road_option' \in (IF agent THEN PlannerOptions ELSE {"LANEFOLLOW"})
               /\ \E mean \in Brightness : image_buffer' = <<[id |-> 0, mean |-> mean]>>
               /\ vehicle_speed' \in Speeds
               /\ vehicle_control' = RunStepControl(road_option')
               /\ current_command' = GetNavigationCommand(agent, road_option')
               /\ UNCHANGED <<error, exit_path, interrupted_at>>
          ELSE /\ pc' = "FAILED"
               /\ error' = IF outcome = "raised" THEN "RuntimeError" ELSE "KeyboardInterrupt"
               /\ exit_path' = "entry"
               /\ interrupted_at' = IF outcome = "interrupt" THEN pc ELSE interrupted_at
               /\ UNCHANGED <<road_option, image_buffer, vehicle_speed, vehicle_control,
                              current_command>>
    /\ UNCHANGED <<program, agent, world, vehicle, camera, synchronous_mode,
                   current_segment_data, segment_count, collected_frames, skip_frames,
                   save_command, total_saved_segments, total_saved_frames,
                   h5_files, save_offered, reprompts, wall_clock, ticks, route_done,
                   cleanup_calls, cleanup_returned,
                   route_idx, route, success, total_routes_completed, failed_routes,
                   total_routes_attempted, start_time, save_path_exists, final_statistics,
                   npc_cleaned, ask_vars, verify_vars, generate_vars, adapter_vars>>

\* the finally clause of main(): collector.cleanup(). After an error of the
\* simulator its first call to the simulator may raise again, and cleanup
\* then does not return
MainCleanup ==
    /\ program = "interactive"
    /\ pc \in {"STOPPED", "FAILED"}
    /\ cleanup_calls = 0
    /\ pc' = "MAIN_EXIT"
    /\ cleanup_calls' = cleanup_calls + 1
    /\ agent' = FALSE
    /\ exit_path' = CASE exit_path # "none" -> exit_path
                      [] pc = "STOPPED" -> "returned"
                      [] OTHER -> "raised"
    /\ \E raises \in (IF /\ error \in SimulatorErrors
                         /\ (camera = "alive" \/ vehicle = "alive" \/ world # "None")
                      THEN BOOLEAN ELSE {FALSE}) :
          IF raises
          THEN /\ cleanup_returned' = FALSE
               /\ UNCHANGED <<camera, vehicle, synchronous_mode>>
          ELSE /\ cleanup_returned' = TRUE
               /\ camera' = Destroyed(camera)
               /\ vehicle' = Destroyed(vehicle)
               /\ synchronous_mode' = IF world # "None" THEN FALSE ELSE synchronous_mode
    /\ UNCHANGED <<program, world, road_option, image_buffer, vehicle_speed, vehicle_control,
                   current_segment_data, segment_count, collected_frames, skip_frames,
                   current_command, save_command, total_saved_segments, total_saved_frames,
                   h5_files, save_offered, reprompts, wall_clock, ticks, route_done,
                   error, interrupted_at,
                   route_idx, route, success, total_routes_completed, failed_routes,
                   total_routes_attempted, start_time, save_path_exists, final_statistics,
                   npc_cleaned, ask_vars, verify_vars, generate_vars, adapter_vars>>

MainNext ==
    \/ MainConnect
    \/ MainSpawnVehicle
    \/ MainSetupCamera
    \/ MainEnterCollection
    \/ Approve
    \/ Reject
    \/ Stop
    \/ InvalidInput
    \/ SkipTick
    \/ CollectTick
    \/ TickError
    \/ SaveAfterCollect
    \/ SaveFails
    \/ Interrupt
    \/ FinalSave
    \/ FinalSaveFails
    \/ FinalDiscard
    \/ FinalInterrupted
    \/ MainCleanup

MainSpec == MainInit /\ [][MainNext]_vars

\* ------------------------------------------------------------ NavigationPlannerAdapter
\* carla_0.9.16/navigation_planner_adapter.py: the route of the global
\* planner and the index of the waypoint nearest to the vehicle

\* the number of waypoints the search looks ahead (20 in the code)
SearchAhead == 2

\* the length of the routes explored
MaxRouteLen == 3

\* the farthest a waypoint is from the vehicle, in the distances explored
MaxWaypointDistance == 1

\* the road options of the route entries explored; UNMAPPED is an option the
\* table does not hold
AdapterOptions == {"LANEFOLLOW", "LEFT", "VOID", "UNMAPPED"}

\* the routes trace_route may return, empty included
AdapterRoutes == UNION {[1..n -> AdapterOptions] : n \in 0..MaxRouteLen}

\* mutant: VOID is coded 0 as in the collectors
AdapterCommand_VoidZero(option) ==
    CASE option = "LEFT" -> 3
      [] option = "RIGHT" -> 4
      [] option = "STRAIGHT" -> 5
      [] option = "VOID" -> 0
      [] OTHER -> 2

\* self._road_option_to_command.get(road_option, 2)
AdapterCommand(option) ==
    CASE option = "LEFT" -> 3
      [] option = "RIGHT" -> 4
      [] option = "STRAIGHT" -> 5
      [] option \in {"LANEFOLLOW", "CHANGELANELEFT", "CHANGELANERIGHT", "VOID"} -> 2
      [] OTHER -> 2

RECURSIVE SearchNearest(_, _, _, _, _)
\* the for loop of _update_current_waypoint from index i (counted from 0) to
\* search_end: the first waypoint of the least distance; min_distance starts
\* at infinity, written MaxWaypointDistance + 1
SearchNearest(i, search_end, distance, min_distance, best_index) ==
    IF i >= search_end THEN best_index
    ELSE IF distance[i + 1] < min_distance
         THEN SearchNearest(i + 1, search_end, distance, distance[i + 1], i)
         ELSE SearchNearest(i + 1, search_end, distance, min_distance, best_index)

\* _update_current_waypoint: the index after the update, for the distances of
\* the vehicle to the waypoints of the route
UpdateCurrentWaypoint(route_, index, distance) ==
    IF Len(route_) = 0 THEN index
    ELSE SearchNearest(index, Min(index + SearchAhead, Len(route_)), distance,
                       MaxWaypointDistance + 1, index)

\* get_navigation_command: the command for the index it has updated
CommandAt(route_, index) ==
    IF Len(route_) = 0 THEN 2
    ELSE IF index < Len(route_) THEN AdapterCommand(route_[index + 1])
    ELSE 2

\* the distances of a vehicle position to the waypoints of the route
DistancesTo(route_) == [1..Len(route_) -> 0..MaxWaypointDistance]

AdapterInit ==
    /\ program = "adapter"
    /\ pc = "ADAPTER_NEW"
    /\ WorldIdle
    /\ SegmentIdle
    /\ AskIdle
    /\ VerifyIdle
    /\ RunIdle
    /\ GenerateIdle
    /\ MainIdle
    /\ AdapterIdle

\* what the methods of the adapter leave alone
AdapterUnchanged ==
    UNCHANGED <<program, agent, ticks, road_option, route_done, image_buffer,
                vehicle_speed, vehicle_control, wall_clock, reprompts,
                current_segment_data, segment_count, collected_frames, skip_frames,
                current_command, save_command, total_saved_segments, total_saved_frames,
                h5_files, save_offered, interrupted_at, error,
                ask_vars, verify_vars, run_vars, generate_vars, main_vars>>

\* set_destination: trace_route raises, returns an empty route (stored
\* without resetting the index) or a route, after which the index is 0
SetDestination ==
    /\ \E traced \in AdapterRoutes, raises \in BOOLEAN :
          IF raises
          THEN /\ pc' = "ADAPTER_UNROUTED"
               /\ UNCHANGED <<planner_route, current_waypoint_index>>
          ELSE /\ planner_route' = traced
               /\ current_waypoint_index' =
                      IF Len(traced) = 0 THEN current_waypoint_index ELSE 0
               /\ pc' = IF Len(traced) = 0 THEN "ADAPTER_UNROUTED" ELSE "ADAPTER_ROUTED"
    /\ UNCHANGED adapter_command
    /\ AdapterUnchanged

\* get_navigation_command(vehicle) for a vehicle position
AdapterGetNavigationCommand ==
    /\ \E distance \in DistancesTo(planner_route) :
          current_waypoint_index' =
              UpdateCurrentWaypoint(planner_route, current_waypoint_index, distance)
    /\ adapter_command' = CommandAt(planner_route, current_waypoint_index')
    /\ pc' = "ADAPTER_COMMAND"
    /\ UNCHANGED planner_route
    /\ AdapterUnchanged

\* get_route_info(vehicle): the index is updated, and once more by the call
\* of get_navigation_command at the end, for the position read then
AdapterGetRouteInfo ==
    /\ \E updated \in {UpdateCurrentWaypoint(planner_route, current_waypoint_index, first) :
                            first \in DistancesTo(planner_route)} :
          \E second \in DistancesTo(planner_route) :
             current_waypoint_index' =
                 UpdateCurrentWaypoint(planner_route, updated, second)
    /\ adapter_command' = CommandAt(planner_route, current_waypoint_index')
    /\ pc' = "ADAPTER_INFO"
    /\ UNCHANGED planner_route
    /\ AdapterUnchanged

AdapterNext == SetDestination \/ AdapterGetNavigationCommand \/ AdapterGetRouteInfo

AdapterSpec == AdapterInit /\ [][AdapterNext]_vars

Interactive == program = "interactive"

\* the chunks a step has added to the disk
NewChunks == SubSeq(h5_files', Len(h5_files) + 1, Len(h5_files'))

\* ticks of the samples that are in some written chunk
WrittenTicks ==
    UNION {{h5_files[i].rgb[j].tick : j \in 1..Len(h5_files[i].rgb)} :
              i \in 1..Len(h5_files)}

\* the step is an iteration of a tick loop that did not complete the route
TickNotCompleting == ticks' = ticks + 1 /\ ~(agent /\ route_done')

\* the step is an iteration of a tick loop on which the route was found completed
TickCompleting == ticks' = ticks + 1 /\ agent /\ route_done'

\* the writer is about to be called with the open segment
WriterCall ==
    \/ pc \in {"FINAL_PROMPT", "AUTO_FLUSHING"}
    \/ pc \in {"SAVING", "AUTO_FINAL"} /\ segment_count > 0

C2_ChunkNamedWithApprovedCommand ==
    [][Interactive =>
          \A i \in 1..Len(NewChunks) : NewChunks[i].command = save_command]_vars

\* ------------------------------------------------------------ C3
\* no sample of the open segment or of a written chunk fails the quality filter
C3_NoRejectedSampleKept ==
    /\ \A j \in 1..Len(current_segment_data.rgb) :
          /\ current_segment_data.rgb[j].mean >= MinBrightness
          /\ current_segment_data.targets[j][10] <= MaxSpeed
    /\ \A i \in 1..Len(h5_files) : \A j \in 1..Len(h5_files[i].rgb) :
          /\ h5_files[i].rgb[j].mean >= MinBrightness
          /\ h5_files[i].targets[j][10] <= MaxSpeed

\* a tick of a collect loop: a rejected frame changes neither the segment nor
\* the counters, any other frame is appended and counted
C3_TickFiltersFrame ==
    (pc \in {"COLLECTING", "AUTO_COLLECTING"} /\ TickNotCompleting) =>
        IF image_buffer'[1].mean < MinBrightness \/ vehicle_speed' > MaxSpeed
        THEN /\ current_segment_data' = current_segment_data
             /\ segment_count' = segment_count
             /\ collected_frames' = collected_frames
        ELSE /\ Len(current_segment_data'.rgb) = Len(current_segment_data.rgb) + 1
             /\ current_segment_data'.rgb[Len(current_segment_data'.rgb)].mean
                    = image_buffer'[1].mean
             /\ current_segment_data'.targets[Len(current_segment_data'.rgb)][10]
                    = vehicle_speed'
             /\ segment_count' = segment_count + 1
             /\ collected_frames' = collected_frames + 1

\* C3: in both collectors a frame with mean brightness below 5 or speed above
\* 150 km/h is never appended and never written; its tick is still advanced
\* and neither counter grows; brightness exactly 5 and speed exactly 150 pass.
C3_QualityFilter == []C3_NoRejectedSampleKept /\ [][C3_TickFiltersFrame]_vars

\* a frame at both thresholds was written after an earlier tick was rejected
C3_Witness ==
    /\ ticks > collected_frames
    /\ \E i \in 1..Len(h5_files) : \E j \in 1..Len(h5_files[i].rgb) :
          /\ h5_files[i].rgb[j].mean = MinBrightness
          /\ h5_files[i].targets[j][10] = MaxSpeed

\* ------------------------------------------------------------ C4
\* the collector is in SKIPPING only while fewer than SkipLimit (500) ticks
\* have been skipped, and every tick that stays in SKIPPING is counted
C4_SkipCounted ==
    /\ [](pc = "SKIPPING" => skip_frames < SkipLimit)
    /\ [][(pc = "SKIPPING" /\ pc' = "SKIPPING") =>
              (ticks' = ticks + 1 /\ skip_frames' = skip_frames + 1)]_vars

\* the step is the SkipLimit-th tick of a skip with the command unchanged
SkipTimesOut ==
    /\ pc = "SKIPPING"
    /\ TickNotCompleting
    /\ GetNavigationCommand(agent, road_option') = current_command
    /\ skip_frames + 1 >= SkipLimit

\* C4 as stated: from SKIPPING with a command that never changes and a route
\* that never completes, the collector is back in AWAITING_DECISION after at
\* most SkipLimit (500) ticks.
C4_SkipReturnsToAsk ==
    C4_SkipCounted /\ [][SkipTimesOut => pc' = "AWAITING_DECISION"]_vars

\* C4 amended: after at most SkipLimit (500) ticks the collector has left
\* SKIPPING; it is back in AWAITING_DECISION when collected_frames, which
\* counts the skipped ticks, is still below max_frames, and STOPPED otherwise.
C4_SkipEndsWithinLimit ==
    C4_SkipCounted
    /\ [][SkipTimesOut =>
              /\ collected_frames' = collected_frames + 1
              /\ pc' = IF collected_frames' < max_frames
                       THEN "AWAITING_DECISION" ELSE "STOPPED"]_vars

\* the operator is asked again after a skip of exactly SkipLimit ticks
C4_Witness ==
    /\ Interactive
    /\ pc = "AWAITING_DECISION"
    /\ skip_frames = SkipLimit
    /\ ticks = SkipLimit

\* ------------------------------------------------------------ C5
\* C5: when collect_data_interactive has ended, every sample of the open
\* segment has been written or the operator was offered the save-or-discard
\* decision for it.
C5_NoSampleDroppedWithoutAsking ==
    (Interactive /\ pc \in {"STOPPED", "FAILED"}) =>
        \/ save_offered
        \/ \A j \in 1..Len(current_segment_data.rgb) :
              current_segment_data.rgb[j].tick \in WrittenTicks

\* ------------------------------------------------------------ C6
\* C6: after a flush of the interactive collector the segment buffer is empty
\* and the segment counter is 0 until the next sample is appended, so in
\* AWAITING_DECISION and SKIPPING.
C6_BufferClearedAfterFlush ==
    (Interactive /\ pc \in {"AWAITING_DECISION", "SKIPPING"}) =>
        /\ current_segment_data = EmptySegment
        /\ segment_count = 0

\* ------------------------------------------------------------ C7
\* the interrupt handler was entered from COLLECTING and shows its prompt
InterruptedCollecting == pc = "FINAL_PROMPT" /\ interrupted_at = "COLLECTING"

SaveReturned == pc = "SAVING" /\ pc' \notin {"FAILED", "FINAL_PROMPT"}

\* C8: after an approval, SegmentLimit (200) ticks that each yield a sample
\* passing the filter fill the segment; exactly one chunk with exactly these
\* samples is written, named with the approved command, and with the route
\* not completed and the frame budget not exhausted the operator is asked again.
C8_FullSegmentSaved ==
    /\ [][(pc = "AWAITING_DECISION" /\ pc' = "COLLECTING") =>
              /\ save_command' = current_command
              /\ current_segment_data' = EmptySegment
              /\ segment_count' = 0]_vars
    /\ [][(pc = "COLLECTING" /\ TickNotCompleting
               /\ image_buffer'[1].mean >= MinBrightness
               /\ vehicle_speed' <= MaxSpeed) =>
              /\ save_command' = save_command
              /\ segment_count' = segment_count + 1
              /\ Len(current_segment_data'.rgb) = segment_count'
              /\ pc' = IF segment_count' = SegmentLimit
                          \/ collected_frames' >= max_frames
                       THEN "SAVING" ELSE "COLLECTING"]_vars
    /\ [][(SaveReturned /\ segment_count = SegmentLimit) =>
              /\ Len(NewChunks) = 1
              /\ Len(NewChunks[1].rgb) = SegmentLimit
              /\ NewChunks[1].rgb = current_segment_data.rgb
              /\ NewChunks[1].targets = current_segment_data.targets
              /\ NewChunks[1].command = save_command
              /\ (~(agent /\ route_done) /\ collected_frames < max_frames)
                    => pc' = "AWAITING_DECISION"]_vars

\* SegmentLimit consecutive ticks after the approval gave one full chunk named
\* with the approved command, and the operator is asked again
C8_Witness ==
    /\ Interactive
    /\ pc = "AWAITING_DECISION"
    /\ ticks = SegmentLimit
    /\ Len(h5_files) = 1
    /\ Len(h5_files[1].rgb) = SegmentLimit
    /\ h5_files[1].command = save_command

\* ------------------------------------------------------------ C9
\* a tick in SKIPPING that does not complete the route
SkipTickStep == pc = "SKIPPING" /\ TickNotCompleting

\* C9 as stated: in SKIPPING nothing is appended or written; the collector
\* stays in SKIPPING after a tick with the rejected command (up to the tick
\* bound) and is in AWAITING_DECISION after the first tick with another one.
C9_SkipUntilCommandChanges ==
    [][SkipTickStep =>
          /\ current_segment_data' = current_segment_data
          /\ h5_files' = h5_files
          /\ IF GetNavigationCommand(agent, road_option') = current_command
             THEN skip_frames + 1 < SkipLimit => pc' = "SKIPPING"
             ELSE pc' = "AWAITING_DECISION"]_vars

\* C9 amended: as stated, but the first tick with another command (like the
\* last tick of the bound) leads to AWAITING_DECISION only while
\* collected_frames, which counts the skipped ticks, is below max_frames, and
\* to STOPPED otherwise.
C9_SkipUntilCommandChangesOrBudget ==
    [][SkipTickStep =>
          /\ current_segment_data' = current_segment_data
          /\ h5_files' = h5_files
          /\ IF GetNavigationCommand(agent, road_option') = current_command
                 /\ skip_frames + 1 < SkipLimit
             THEN pc' = "SKIPPING"
             ELSE pc' = IF collected_frames' < max_frames
                        THEN "AWAITING_DECISION" ELSE "STOPPED"]_vars

\* asked again by a command change after at least one skipped tick, nothing written
C9_Witness ==
    /\ Interactive
    /\ pc = "AWAITING_DECISION"
    /\ skip_frames >= 1
    /\ skip_frames < SkipLimit
    /\ ticks = skip_frames + 1
    /\ h5_files = <<>>
    /\ current_segment_data = EmptySegment

\* ------------------------------------------------------------ C10
\* the route was found completed and the collector has left its tick loops
AfterCompletion ==
    /\ Interactive
    /\ agent /\ route_done
    /\ pc \in {"SAVING", "FINAL_PROMPT", "STOPPED", "FAILED"}

\* C10: a tick in SKIPPING or COLLECTING on which the route is found completed
\* ends the collection: from SKIPPING the collector is STOPPED at once; from
\* COLLECTING the frame of that tick is not sampled, a non-empty segment is
\* flushed and the collector is STOPPED; no tick and no ask follows.
C10_RouteCompletedStops ==
    /\ [][(pc = "SKIPPING" /\ TickCompleting) =>
              (pc' = "STOPPED" /\ h5_files' = h5_files)]_vars
    /\ [][(pc = "COLLECTING" /\ TickCompleting) =>
              /\ pc' = "SAVING"
              /\ current_segment_data' = current_segment_data
              /\ segment_count' = segment_count
              /\ collected_frames' = collected_frames]_vars
    /\ [][(SaveReturned /\ agent /\ route_done) =>
              /\ pc' = "STOPPED"
              /\ IF Len(current_segment_data.rgb) > 0
                 THEN /\ Len(NewChunks) = 1
                      /\ NewChunks[1].rgb = current_segment_data.rgb
                 ELSE Len(NewChunks) = 0]_vars
    /\ [][AfterCompletion =>
              /\ ticks' = ticks
              /\ pc' \in {"FINAL_PROMPT", "STOPPED", "FAILED"}]_vars

\* the route completed during a segment: its samples were flushed, then STOPPED
C10_Witness ==
    /\ Interactive
    /\ pc = "STOPPED"
    /\ agent /\ route_done
    /\ interrupted_at = "none"
    /\ Len(h5_files) = 1
    /\ Len(h5_files[1].rgb) < SegmentLimit
    /\ ticks = Len(h5_files[1].rgb) + 1

\* ------------------------------------------------------------ C11
\* the step is an iteration of the skip loop or of the collect loop: it is
\* neither ended by an exception nor by an interrupt
LoopIteration ==
    /\ pc \in {"SKIPPING", "COLLECTING"}
    /\ error' = error
    /\ interrupted_at' = interrupted_at

\* C11: world.tick is called exactly once in every iteration of the COLLECTING
\* loop and of the SKIPPING loop, and not at all from the moment the operator
\* is asked to the moment a valid decision is returned, whatever the number of
\* invalid answers typed in between.
C11_TickOncePerIterationNoneWhileAsking ==
    /\ [][LoopIteration => ticks' = ticks + 1]_vars
    /\ [][pc = "AWAITING_DECISION" =>
              /\ ticks' = ticks
              /\ (reprompts' > reprompts => pc' = "AWAITING_DECISION")]_vars

\* a skip of SkipLimit iterations made SkipLimit ticks, and the invalid
\* answers typed at the prompt that followed added none
C11_Witness ==
    /\ pc = "AWAITING_DECISION"
    /\ reprompts = MaxReprompts
    /\ skip_frames = SkipLimit
    /\ ticks = skip_frames

\* ------------------------------------------------------------ C12
\* C12: in every reachable state of either collector the open segment holds at
\* most SegmentLimit (200) samples, and a sample is only appended to a segment
\* that holds fewer.
C12_BufferNeverExceedsLimit ==
    /\ [](/\ Len(current_segment_data.rgb) <= SegmentLimit
          /\ Len(current_segment_data.targets) <= SegmentLimit)
    /\ [][Len(current_segment_data'.rgb) > Len(current_segment_data.rgb) =>
              Len(current_segment_data.rgb) < SegmentLimit]_vars

\* the automated collector filled a segment, flushed it and appended again
C12_Witness ==
    /\ program = "auto"
    /\ Len(h5_files) = 1
    /\ Len(h5_files[1].rgb) = SegmentLimit
    /\ Len(current_segment_data.rgb) = 1

\* ------------------------------------------------------------ C13
\* C13: for every command of {0, 2, 3, 4, 5} observed in AWAITING_DECISION an
\* approval opens an empty segment and enters COLLECTING and a rejection enters
\* SKIPPING; no decision ends the collection with an error.
C13_DecisionNeverFails ==
    [][(pc = "AWAITING_DECISION" /\ current_command \in Commands) =>
          /\ error' = "none"
          /\ pc' # "FAILED"
          /\ pc' = "COLLECTING" =>
                (current_segment_data' = EmptySegment /\ segment_count' = 0)
          /\ pc' = "SKIPPING" => skip_frames' = 0]_vars

\* ------------------------------------------------------------ C14
\* C14: when the write of a segment raises an I/O error, the interactive
\* collector goes on: it is asked about the next segment (or has ended
\* regularly because the route or the frame budget is used up), and the
\* statistics count no chunk that was not written.
C14_WriteFailureContinues ==
    [][(pc = "SAVING" /\ error' = "OSError") =>
          /\ pc' \in {"AWAITING_DECISION", "STOPPED"}
          /\ total_saved_segments' = total_saved_segments
          /\ total_saved_frames' = total_saved_frames]_vars

\* ------------------------------------------------------------ C15
\* C15: an operator interrupt of the automated collector while the open
\* segment holds unwritten samples leads to the save-or-discard decision for
\* these samples before the collector exits.
C15_AutoInterruptOffersSave ==
    (program = "auto" /\ pc = "AUTO_INTERRUPTED" /\ Len(current_segment_data.rgb) > 0) =>
        save_offered

\* ------------------------------------------------------------ C16
\* C16: no two chunk files ever written have the same path, in both
\* collectors, also when the wall clock does not advance between two flushes
\* with the same command.
C16_NoTwoFlushesSamePath ==
    \A i, j \in 1..Len(h5_files) :
        i # j => h5_files[i].filename # h5_files[j].filename

\* ------------------------------------------------------------ C17
\* C17: in both collectors a step that writes chunks adds the number of
\* samples written to the saved-frames counter and the number of files to the
\* saved-segments counter; every other step leaves both counters unchanged.
C17_FlushUpdatesStatistics ==
    [][/\ total_saved_segments' = total_saved_segments + Len(NewChunks)
       /\ total_saved_frames' = total_saved_frames + SumLen(NewChunks)]_vars

\* ------------------------------------------------------------ C18
\* C18: a tick of the collect loop on which the command differs from the
\* approved one ends the collecting without sampling that tick, and every
\* sample of a chunk written by the interactive collector carries at index 24
\* the command of the chunk.
C18_SegmentOfOneCommand ==
    /\ [][(pc = "COLLECTING" /\ TickNotCompleting
               /\ GetNavigationCommand(agent, road_option') # save_command) =>
              /\ pc' # "COLLECTING"
              /\ current_segment_data' = current_segment_data]_vars
    /\ [](Interactive =>
              \A i \in 1..Len(h5_files) : \A j \in 1..Len(h5_files[i].targets) :
                  h5_files[i].targets[j][24] = h5_files[i].command)

\* ------------------------------------------------------------ C19
\* the least number of chunks of at most SegmentLimit samples that hold K samples
CeilDiv(K) == CHOOSE n \in 0..K : n * SegmentLimit >= K /\ (n - 1) * SegmentLimit < K

\* the written chunk with part index i
ChunkWithPart(i) == CHOOSE c \in {h5_files[k] : k \in 1..Len(h5_files)} : c.part = i

\* the chunks with part indices 1..n read back in this order
RECURSIVE ReadBack(_)
ReadBack(n) ==
    IF n = 0 THEN EmptySegment
    ELSE [rgb     |-> ReadBack(n - 1).rgb \o ChunkWithPart(n).rgb,
          targets |-> ReadBack(n - 1).targets \o ChunkWithPart(n).targets]

\* C19: _save_segment applied to a buffer of K >= 1 samples writes exactly
\* ceil(K / SegmentLimit) chunks with part indices 1..ceil(K / SegmentLimit),
\* each of at most SegmentLimit (200) samples; read back in part order they
\* give the K samples of the buffer in their order, each once; for
\* K <= SegmentLimit this is one chunk with exactly the K samples.
C19_SaveSegmentRoundTrip ==
    (pc = "WRITER_RETURNED" /\ Len(current_segment_data.rgb) >= 1) =>
        LET K == Len(current_segment_data.rgb)
        IN  /\ Len(h5_files) = CeilDiv(K)
            /\ \A i \in 1..Len(h5_files) :
                  /\ h5_files[i].part = i
                  /\ Len(h5_files[i].rgb) >= 1
                  /\ Len(h5_files[i].rgb) <= SegmentLimit
                  /\ Len(h5_files[i].targets) = Len(h5_files[i].rgb)
            /\ ReadBack(Len(h5_files)) = current_segment_data
            /\ K <= SegmentLimit =>
                  /\ Len(h5_files) = 1
                  /\ h5_files[1].rgb = current_segment_data.rgb
                  /\ h5_files[1].targets = current_segment_data.targets

\* a buffer of two full chunks and one sample was written as three chunks
C19_Witness ==
    /\ pc = "WRITER_RETURNED"
    /\ Len(current_segment_data.rgb) = 2 * SegmentLimit + 1
    /\ Len(h5_files) = 3
    /\ Len(h5_files[3].rgb) = 1

\* ------------------------------------------------------------ C20
\* a label vector: 25 entries, zero outside indices 0, 1, 2, 10 and 24, a
\* command of {0, 2, 3, 4, 5} at index 24
WellFormedTargets(v) ==
    /\ DOMAIN v = 0..24
    /\ \A i \in DOMAIN v : i \notin {0, 1, 2, 10, 24} => v[i] = 0
    /\ v[24] \in {0, 2, 3, 4, 5}

C21_NavigationCommandTotal ==
    pc = "NAV_READ" =>
        /\ current_command \in {0, 2, 3, 4, 5}
        /\ agent =>
              /\ road_option \in {"LANEFOLLOW", "CHANGELANELEFT", "CHANGELANERIGHT"}
                    => current_command = 2
              /\ road_option = "LEFT" => current_command = 3
              /\ road_option = "RIGHT" => current_command = 4
              /\ road_option = "STRAIGHT" => current_command = 5
              /\ road_option \in {"None", "UNMAPPED", "NO_PLANNER", "RAISES"}
                    => current_command = 2
        /\ ~agent => (current_command = 2 /\ ~route_done)

\* a read of the planner raised and the command read is 2, after an earlier read
C21_Witness ==
    /\ pc = "NAV_READ"
    /\ agent
    /\ road_option = "RAISES"
    /\ current_command = 2
    /\ ticks >= 2

\* ------------------------------------------------------------ C22
\* the lines that spell one of the given words, in any case and with blanks
\* around it
Spellings(words) == UNION {TypedAs(w) : w \in words}

\* the words of the statement
SaveWords == {<<"s", "a", "v", "e">>, <<"s">>, <<"y">>, <<"y", "e", "s">>}

SkipWords == {<<"s", "k", "i", "p">>, <<"n">>, <<"n", "o">>}

StopWords == {<<"s", "t", "o", "p">>, <<"q">>, <<"q", "u", "i", "t">>}

\* the step reads a line at the prompt
LineRead == pc = "ASK_PROMPT" /\ interrupted_at' = interrupted_at

\* the answer to a line is the decision of its word, and no decision for a
\* line that spells none of the words
DecisionOf(save, skip, stop) ==
    LineRead =>
        /\ choice' \in Spellings(save) => user_choice' = "True"
        /\ choice' \in Spellings(skip) => user_choice' = "False"
        /\ choice' \in Spellings(stop) => user_choice' = "None"
        /\ choice' \notin Spellings(save \cup skip \cup stop) =>
              (user_choice' = "pending" /\ pc' = "ASK_PROMPT")
        /\ user_choice' # "pending" => pc' = "ASK_RETURNED"

\* an interrupt while waiting for the answer gives STOP
InterruptStops ==
    (pc = "ASK_PROMPT" /\ interrupted_at' # interrupted_at) =>
        (user_choice' = "None" /\ pc' = "ASK_RETURNED")

\* C22 as stated: trimmed and compared without regard to case, save/s/y/yes
\* give APPROVE, skip/n/no REJECT and stop/q/quit STOP; every other line
\* gives no decision and the operator is asked again; an interrupt gives STOP.
C22_AnswerMapping ==
    [][DecisionOf(SaveWords, SkipWords, StopWords) /\ InterruptStops]_vars

\* C22 amended: as stated, with the three words the prompt itself names also
\* accepted: U+4FDD U+5B58 gives APPROVE, U+8DF3 U+8FC7 REJECT and
\* U+505C U+6B62 STOP.
C22_AnswerMappingWithPromptWords ==
    [][DecisionOf(SaveChoices, SkipChoices, StopChoices) /\ InterruptStops]_vars

\* an invalid line was answered by a new prompt, then " YES " was taken as approval
C22_Witness ==
    /\ pc = "ASK_RETURNED"
    /\ reprompts >= 1
    /\ choice = <<"\t", "Y", "E", "S", " ">>
    /\ user_choice = "True"

\* ------------------------------------------------------------ C23
\* C23: in the interactive collector collected_frames never exceeds
\* max_frames, whether the frames are counted in COLLECTING or in SKIPPING.
C23_FramesWithinBudget == Interactive => collected_frames <= max_frames

\* ------------------------------------------------------------ C25
\* the ticks of the samples of chunk i
TicksOf(i) == {h5_files[i].rgb[j].tick : j \in 1..Len(h5_files[i].rgb)}

\* C25: over any run of the interactive collector, a confirmed final save
\* after an interrupt included, every sample is written to at most one chunk.
C25_NoSampleWrittenTwice ==
    Interactive =>
        \A i, j \in 1..Len(h5_files) : i # j => TicksOf(i) \cap TicksOf(j) = {}

\* ------------------------------------------------------------ C26
\* the camera images of the samples of the open segment
ImagesOf(data) == {data.rgb[j].img : j \in 1..Len(data.rgb)}

\* C26: a tick of a collect loop for which the camera callback delivered no
\* new image appends no sample, so the samples of a segment hold pairwise
\* different camera images.
C26_EachImageSampledOnce ==
    /\ [][(pc \in {"COLLECTING", "AUTO_COLLECTING"} /\ ticks' = ticks + 1
               /\ image_buffer' = image_buffer) =>
              current_segment_data' = current_segment_data]_vars
    /\ [](Cardinality(ImagesOf(current_segment_data)) = Len(current_segment_data.rgb))

\* ------------------------------------------------------------ C27
\* C27: every COLLECTING episode of the interactive collector ends, whatever
\* the frames are: an iteration of the collect loop that leaves the collector
\* in COLLECTING has advanced a counter of the loop condition, so that an
\* episode has at most SegmentLimit (200) iterations.
C27_CollectingEnds ==
    [][(pc = "COLLECTING" /\ pc' = "COLLECTING" /\ ticks' = ticks + 1) =>
          (segment_count' > segment_count \/ collected_frames' > collected_frames)]_vars

\* ------------------------------------------------------------ C28
\* C28: every chunk the automated collector writes, at SegmentLimit (200)
\* samples and at the end of the route, is named with the command of the
\* first sample of the chunk.
C28_AutoChunkNamedAtSegmentOpen ==
    program = "auto" =>
        \A i \in 1..Len(h5_files) : h5_files[i].command = h5_files[i].targets[1][24]

\* ------------------------------------------------------------ C29
\* C29: when _auto_collect_data returns True, the sizes of the chunks flushed
\* sum to collected_frames, which is at most frames_per_route; no sample is in
\* two chunks; every chunk but the last holds exactly SegmentLimit (200)
\* samples and the last between 1 and SegmentLimit.
C29_AutoFlushesEverySampleOnce ==
    (program = "auto" /\ pc = "AUTO_DONE") =>
        /\ SumLen(h5_files) = collected_frames
        /\ collected_frames <= max_frames
        /\ \A i, j \in 1..Len(h5_files) : i # j => TicksOf(i) \cap TicksOf(j) = {}
        /\ \A i \in 1..Len(h5_files) :
              /\ Cardinality(TicksOf(i)) = Len(h5_files[i].rgb)
              /\ 1 <= Len(h5_files[i].rgb)
              /\ Len(h5_files[i].rgb) <= SegmentLimit
              /\ i < Len(h5_files) => Len(h5_files[i].rgb) = SegmentLimit

\* the route ended after a full chunk and a partial one
C29_Witness ==
    /\ program = "auto"
    /\ pc = "AUTO_DONE"
    /\ Len(h5_files) = 2
    /\ Len(h5_files[2].rgb) = 1
    /\ collected_frames = SegmentLimit + 1

\* ------------------------------------------------------------ C24
\* C24: verify_all never creates, modifies or deletes a .h5 file, and a second
\* run on the same directory computes the same statistics and the same
\* corrupted, warning and incomplete file lists as the first.
C24_VerifyAllReadOnly ==
    /\ [][FindH5Files(data_path') = FindH5Files(data_path)]_vars
    /\ [](pc = "VERIFIED_TWICE" => statistics = previous_statistics)

\* two runs over a directory with a chunk that is counted, incomplete and
\* warned about and a file that is not a chunk; the reports were written
C24_Witness ==
    /\ pc = "VERIFIED_TWICE"
    /\ statistics.returned
    /\ statistics.total_frames > 0
    /\ statistics.incomplete_files # <<>>
    /\ statistics.warning_files # <<>>
    /\ Len(data_path) = 4
    /\ Len(FindH5Files(data_path)) = 1

\* ------------------------------------------------------------ C30
\* C30: for a valid route whose spawn succeeds and for which nothing raises,
\* collect_route_data returns True and run counts the route as completed:
\* total_routes_completed grows by one and failed_routes is unchanged.
C30_CleanRouteIsCompleted ==
    [][(pc = "RUN_COLLECTING" /\ pc' = "RUN_NEXT_ROUTE" /\ error' = "none") =>
          /\ success' = "True"
          /\ total_routes_completed' = total_routes_completed + 1
          /\ failed_routes' = failed_routes]_vars

\* ------------------------------------------------------------ C34
\* C34: in the interactive collector total_saved_frames is at most the
\* collected-frames counter, so that the skipped frames reported (collected
\* minus saved) are never negative, also after a final save on interrupt.
C34_SavedAtMostCollected == Interactive => total_saved_frames <= collected_frames

\* ------------------------------------------------------------ C31
\* C31: an operator interrupt at any point of run() (while connecting, while
\* generating the routes, during a route) ends the run gracefully: the final
\* statistics are printed and saved without a further error, the NPC actors
\* are cleaned up and the simulator is back in asynchronous mode.
C31_InterruptEndsGracefully ==
    (program = "run" /\ pc = "RUN_DONE" /\ interrupted_at # "none") =>
        /\ final_statistics = "saved"
        /\ error = "none"
        /\ npc_cleaned
        /\ ~synchronous_mode

\* ------------------------------------------------------------ C32
\* C32: after each iteration of the route loop of run(),
\* total_routes_attempted = total_routes_completed + len(failed_routes), and
\* the iteration has counted its route in exactly one of the two.
C32_AttemptedIsCompletedPlusFailed ==
    /\ [](pc = "RUN_NEXT_ROUTE" =>
             total_routes_attempted = total_routes_completed + Len(failed_routes))
    /\ [][(pc = "RUN_COLLECTING" /\ pc' = "RUN_NEXT_ROUTE") =>
             \/ /\ total_routes_completed' = total_routes_completed + 1
                /\ failed_routes' = failed_routes
             \/ /\ total_routes_completed' = total_routes_completed
                /\ Len(failed_routes') = Len(failed_routes) + 1]_vars
    /\ [][(pc = "RUN_NEXT_ROUTE" /\ pc' = "RUN_NEXT_ROUTE"
               /\ total_routes_attempted' = total_routes_attempted + 1) =>
             /\ total_routes_completed' = total_routes_completed
             /\ Len(failed_routes') = Len(failed_routes) + 1]_vars

\* every route was attempted; one was not reachable and one failed in
\* collection
C32_Witness ==
    /\ pc = "RUN_NEXT_ROUTE"
    /\ total_routes_attempted = MaxRoutes
    /\ \E i, j \in 1..Len(failed_routes) :
          failed_routes[i][3] = "unreachable" /\ failed_routes[j][3] = "collect_failed"

\* ------------------------------------------------------------ C33
\* C33: generate_route_pairs returns only entries (start, end, distance) with
\* start # end and min_distance <= distance <= max_distance, no (start, end)
\* pair occurs twice in the result, and in the smart strategy a start
\* contributes at most three entries.
C33_RoutePairsValidAndDistinct ==
    (program = "generate" /\ pc = "GENERATE_RETURNED") =>
        /\ \A k \in 1..Len(route_pairs) :
              /\ route_pairs[k][1] # route_pairs[k][2]
              /\ DistanceInRange(route_pairs[k][3])
        /\ \A k, l \in 1..Len(route_pairs) :
              k # l => <<route_pairs[k][1], route_pairs[k][2]>>
                           # <<route_pairs[l][1], route_pairs[l][2]>>
        /\ route_generation_strategy = "smart" =>
              \A start \in SpawnIndexes :
                  Cardinality({k \in 1..Len(route_pairs) : route_pairs[k][1] = start}) <= 3

\* ------------------------------------------------------------ C35
\* C35: on every exit path of main() of the interactive program, cleanup runs
\* once, after the collection has ended, and when it returns the camera and
\* the vehicle that were created are destroyed and the simulator is not in
\* synchronous mode.
C35_CleanupOnEveryExit ==
    /\ pc # "MAIN_EXIT" => cleanup_calls = 0
    /\ pc = "MAIN_EXIT" =>
          /\ cleanup_calls = 1
          /\ cleanup_returned =>
                /\ camera # "alive"
                /\ vehicle # "alive"
                /\ ~synchronous_mode

\* the collection saved a segment, was interrupted, and cleanup destroyed the
\* camera and the vehicle
C35_Witness ==
    /\ pc = "MAIN_EXIT"
    /\ cleanup_returned
    /\ camera = "destroyed"
    /\ vehicle = "destroyed"
    /\ interrupted_at \in {"AWAITING_DECISION", "SKIPPING", "COLLECTING", "SAVING"}
    /\ total_saved_segments >= 1
    /\ exit_path = "returned"

\* ------------------------------------------------------------ C36
\* C36: in NavigationPlannerAdapter the current waypoint index never
\* decreases between two set_destination calls and stays within
\* 0..len(route)-1 for a non-empty route, whatever the calls and the vehicle
\* positions; get_navigation_command returns a code of {2, 3, 4, 5}, VOID and
\* unmapped options giving 2.
C36_WaypointIndexMonotoneInRange ==
    /\ [][pc' \in {"ADAPTER_COMMAND", "ADAPTER_INFO"} =>
             current_waypoint_index' >= current_waypoint_index]_vars
    /\ [](planner_route # <<>> =>
             current_waypoint_index \in 0..(Len(planner_route) - 1))
    /\ [](adapter_command \in {2, 3, 4, 5})
    /\ []((pc \in {"ADAPTER_COMMAND", "ADAPTER_INFO"} /\ planner_route # <<>>
              /\ planner_route[current_waypoint_index + 1] \in {"VOID", "UNMAPPED"}) =>
             adapter_command = 2)

\* the vehicle has reached the last waypoint of a longest route, whose option
\* is VOID
C36_Witness ==
    /\ pc = "ADAPTER_INFO"
    /\ Len(planner_route) = MaxRouteLen
    /\ current_waypoint_index = Len(planner_route) - 1
    /\ planner_route[Len(planner_route)] = "VOID"
    /\ planner_route[1] = "LEFT"
    /\ adapter_command = 2

====
